---- MODULE Spec2Model ----
(***************************************************************************)
(* The OpenRouter API-key settings widget (ComponentOpenRouterKeys), the   *)
(* OpenRouterService and the model-list cache of modelUtils, as one state  *)
(* machine.  Strings that the code inspects character by character (the    *)
(* API key) are sequences of one-character strings; identifiers that are   *)
(* only compared are plain strings.                                        *)
(***************************************************************************)
EXTENDS Integers, Sequences, FiniteSets, TLC

VARIABLES
    state,      \* ComponentOpenRouterKeysState (this.state)
    services,   \* props.services: which host capabilities are present
    storage,    \* window.localStorage: availability and the model-cache slot
    backend,    \* the settings instances held by the server
    now,        \* Date.now()
    loadOp,     \* position of componentDidMount / loadApiKeyStatus
    saveOp,     \* the outstanding saveApiKey calls, in the order they were made
    fetchOp,    \* the outstanding ensureModelsLoaded call
    testOp,     \* the outstanding handleTestModel call
    connOp,     \* the outstanding handleTestConnection call
    env,        \* what the user, the host and the server may supply in this run
    modelsStale, \* history: availableModels was requested under an earlier credential
    last        \* history: what the step just taken was

vars == <<state, services, storage, backend, now, loadOp, saveOp, fetchOp,
          testOp, connOp, env, modelsStale, last>>

----------------------------------------------------------------------------
(* Bounds *)

MaxTicks == 1
TickMs == 400000
MaxInstances == 2
MaxSaves == 1
MaxHistory == 1

----------------------------------------------------------------------------
(* Strings *)

RECURSIVE Rep(_, _)
Rep(c, n) == IF n = 0 THEN <<>> ELSE <<c>> \o Rep(c, n - 1)

EmptyStr == <<>>

KeyPrefix == <<"s", "k", "-", "o", "r", "-">>

MinKeyLength == 26

startsWith(s, p) == Len(s) >= Len(p) /\ SubSeq(s, 1, Len(p)) = p

IsWhitespace(c) == c \in {" ", "\t", "\n"}

HasWhitespace(s) == \E i \in 1..Len(s) : IsWhitespace(s[i])

RECURSIVE trimStart(_)
trimStart(s) ==
    IF s # <<>> /\ IsWhitespace(Head(s)) THEN trimStart(Tail(s)) ELSE s

RECURSIVE trimEnd(_)
trimEnd(s) ==
    IF s # <<>> /\ IsWhitespace(s[Len(s)])
    THEN trimEnd(SubSeq(s, 1, Len(s) - 1))
    ELSE s

trim(s) == trimEnd(trimStart(s))

(* The strings a user can put into the input field. *)
KeyA == KeyPrefix \o Rep("a", 20)
KeyShort == KeyPrefix \o Rep("a", 19)
KeyNoPrefix == <<"a", "b", "c", "1", "2", "3">>
KeyB == KeyPrefix \o Rep("b", 20)
KeyInnerSpace == KeyPrefix \o Rep("b", 9) \o <<" ">> \o Rep("b", 10)

----------------------------------------------------------------------------
(* validateApiKey *)

validateApiKey_NoLengthRule(apiKey) ==
    IF apiKey # EmptyStr /\ ~startsWith(apiKey, KeyPrefix)
    THEN [isValid |-> FALSE, error |-> "must_start_with_sk-or-"]
    ELSE [isValid |-> TRUE, error |-> "null"]

validateApiKey(apiKey) ==
    IF apiKey # EmptyStr /\ ~startsWith(apiKey, KeyPrefix)
    THEN [isValid |-> FALSE, error |-> "must_start_with_sk-or-"]
    ELSE IF apiKey # EmptyStr /\ Len(apiKey) < MinKeyLength
    THEN [isValid |-> FALSE, error |-> "too_short"]
    ELSE [isValid |-> TRUE, error |-> "null"]

----------------------------------------------------------------------------
(* The server: settings instances and the provider's model catalogue.      *)

(* The masked form under which the server hands a stored key back. *)
Mask(k) ==
    IF k = EmptyStr THEN EmptyStr
    ELSE SubSeq(k, 1, IF Len(k) < 6 THEN Len(k) ELSE 6) \o <<"*", "*", "*", "*">>

Instance(id, scope, apiKey) ==
    [id |-> id, scope |-> scope,
     value |-> [apiKey |-> apiKey, enabled |-> apiKey # EmptyStr]]

NoInstance == Instance(0, "none", EmptyStr)

(* GET /api/v1/settings/instances?scope=s: the instances of that scope. *)
InstancesOfScope(instances, s) ==
    SelectSeq(instances, LAMBDA inst : inst.scope = s)

(* The instance both lookups settle on: scope 'user' first, then 'USER'. *)
tryScopes(instances) ==
    IF InstancesOfScope(instances, "user") # <<>>
    THEN Head(InstancesOfScope(instances, "user"))
    ELSE IF InstancesOfScope(instances, "USER") # <<>>
    THEN Head(InstancesOfScope(instances, "USER"))
    ELSE NoInstance

(* POST /api/v1/settings/instances: an id updates in place, none creates. *)
PostInstance(instances, payload) ==
    IF payload.id # 0
    THEN [i \in DOMAIN instances |->
            IF instances[i].id = payload.id
            THEN [instances[i] EXCEPT !.value = payload.value,
                                      !.scope = payload.scope]
            ELSE instances[i]]
    ELSE Append(instances,
                [id |-> Len(instances) + 1, scope |-> payload.scope,
                 value |-> payload.value])

(* settings.setSetting on the host side: writes the user's one instance. *)
SetSettingOnHost(instances, value) ==
    PostInstance(instances,
                 [id |-> tryScopes(instances).id, scope |-> "user", value |-> value])

(* Raw catalogue entries; an absent field is the empty string. *)
Raw(id, model, name) == [id |-> id, model |-> model, name |-> name]

RawAlpha == Raw("m-alpha", "", "Alpha")
RawBeta == Raw("", "m-beta", "")
RawBlank == Raw("", "", "")
RawNamedBeta == Raw("m-alpha", "", "m-beta")
RawBetaAgain == Raw("m-beta", "", "Beta")

(* A payload in which an id occurs twice and a display name equals the id   *)
(* of a later entry.                                                        *)
ClashingResponse ==
    [shape |-> "array", items |-> <<RawNamedBeta, RawBeta, RawBetaAgain>>]

Responses ==
    {[shape |-> "array", items |-> <<RawAlpha, RawBeta>>],
     [shape |-> "data.models", items |-> <<RawBlank, RawBeta>>],
     [shape |-> "models", items |-> <<>>],
     [shape |-> "other", items |-> <<RawAlpha>>]}

----------------------------------------------------------------------------
(* modelUtils: the model cache in localStorage, and normalization.         *)

FIVE_MINUTES == 5 * 60 * 1000

NoEntry == [present |-> FALSE, models |-> <<>>, timestamp |-> 0, stale |-> FALSE]

CacheMiss(sto) == [sto |-> sto, hit |-> FALSE, models |-> <<>>, stale |-> FALSE]

getModelCache_KeepExpired(sto, t, ttlMs) ==
    IF ~sto.available THEN CacheMiss(sto)
    ELSE IF ~sto.entry.present THEN CacheMiss(sto)
    ELSE IF sto.entry.timestamp = 0 THEN CacheMiss(sto)
    ELSE IF t - sto.entry.timestamp > ttlMs
    THEN CacheMiss(sto)
    ELSE [sto |-> sto, hit |-> TRUE, models |-> sto.entry.models,
          stale |-> sto.entry.stale]

getModelCache(sto, t, ttlMs) ==
    IF ~sto.available THEN CacheMiss(sto)
    ELSE IF ~sto.entry.present THEN CacheMiss(sto)
    ELSE IF sto.entry.timestamp = 0 THEN CacheMiss(sto)
    ELSE IF t - sto.entry.timestamp > ttlMs
    THEN CacheMiss([sto EXCEPT !.entry = NoEntry])
    ELSE [sto |-> sto, hit |-> TRUE, models |-> sto.entry.models,
          stale |-> sto.entry.stale]

setModelCache(sto, models, t, stale) ==
    IF ~sto.available THEN sto
    ELSE [sto EXCEPT !.entry = [present |-> TRUE, models |-> models,
                                timestamp |-> t, stale |-> stale]]

clearModelCache_Keep(sto) == sto

clearModelCache(sto) ==
    IF ~sto.available THEN sto ELSE [sto EXCEPT !.entry = NoEntry]

normalizeModelRecord(record) ==
    [id |-> IF record.id # "" THEN record.id
            ELSE IF record.model # "" THEN record.model
            ELSE record.name,
     name |-> IF record.name # "" THEN record.name
              ELSE IF record.id # "" THEN record.id
              ELSE "Unknown model"]

RECURSIVE MapNormalize(_)
MapNormalize(items) ==
    IF items = <<>> THEN <<>>
    ELSE <<normalizeModelRecord(Head(items))>> \o MapNormalize(Tail(items))

(* fetchModels, from the response on: pick the list, normalize, filter. *)
RawModelsOf(response) ==
    IF response.shape \in {"array", "models", "data.models"}
    THEN response.items
    ELSE <<>>

NormalizedModels_NoFilter(response) == MapNormalize(RawModelsOf(response))

NormalizedModels(response) ==
    SelectSeq(MapNormalize(RawModelsOf(response)), LAMBDA m : m.id # "")

(* testModelAvailability with a non-empty list supplied by the caller. *)
FindMatch_NameOnly(models, modelId) ==
    SelectSeq(models, LAMBDA m : m.name = modelId)

FindMatch(models, modelId) ==
    SelectSeq(models, LAMBDA m : m.id = modelId \/ m.name = modelId)

testModelAvailability_IdOnly(sto, modelId, models) ==
    LET byId == SelectSeq(models, LAMBDA m : m.id = modelId)
    IN  IF byId # <<>>
        THEN [sto |-> sto,
              result |-> [id |-> <<Head(byId).id, now>>, modelId |-> Head(byId).id,
                          modelName |-> Head(byId).name,
                          status |-> "available", timestamp |-> now]]
        ELSE [sto |-> clearModelCache(sto),
              result |-> [id |-> <<modelId, now>>,
                          modelId |-> modelId, modelName |-> modelId,
                          status |-> "unavailable", timestamp |-> now]]

testModelAvailability_KeepCache(sto, modelId, models) ==
    IF FindMatch(models, modelId) # <<>>
    THEN [sto |-> sto,
          result |-> [id |-> <<Head(FindMatch(models, modelId)).id, now>>,
                      modelId |-> Head(FindMatch(models, modelId)).id,
                      modelName |-> Head(FindMatch(models, modelId)).name,
                      status |-> "available", timestamp |-> now]]
    ELSE [sto |-> sto,
          result |-> [id |-> <<modelId, now>>,
                      modelId |-> modelId, modelName |-> modelId,
                      status |-> "unavailable", timestamp |-> now]]

testModelAvailability(sto, modelId, models) ==
    IF FindMatch(models, modelId) # <<>>
    THEN [sto |-> sto,
          result |-> [id |-> <<Head(FindMatch(models, modelId)).id, now>>,
                      modelId |-> Head(FindMatch(models, modelId)).id,
                      modelName |-> Head(FindMatch(models, modelId)).name,
                      status |-> "available", timestamp |-> now]]
    ELSE [sto |-> clearModelCache(sto),
          result |-> [id |-> <<modelId, now>>,
                      modelId |-> modelId, modelName |-> modelId,
                      status |-> "unavailable", timestamp |-> now]]

----------------------------------------------------------------------------
(* ComponentOpenRouterKeys: state and the synchronous part of its methods. *)
(* A method body works on a record w of everything a state update can      *)
(* touch: the widget state (st), localStorage (sto), the outstanding model *)
(* fetch (fetch) and the staleness history (stale).                        *)

InitialState ==
    [apiKey |-> EmptyStr, savedApiKey |-> EmptyStr, isLoading |-> TRUE,
     error |-> "null", success |-> "null",
     testResult |-> "null", testError |-> "null",
     isSaving |-> FALSE, isTesting |-> FALSE, hasUnsavedChanges |-> FALSE,
     activeTab |-> "api-key", modelsLoaded |-> FALSE, modelsLoading |-> FALSE,
     availableModels |-> <<>>, selectedModelId |-> "null",
     modelTestResults |-> <<>>, modelTabError |-> "null",
     isModelTesting |-> FALSE]

(* issued counts the provider requests of fetchModels that are outstanding; *)
(* forced is the forceRefresh option of the call that is outstanding.       *)
IdleFetch ==
    [phase |-> "idle", models |-> <<>>, stale |-> FALSE, issued |-> 0,
     forced |-> FALSE]

World == [st |-> state, sto |-> storage, fetch |-> fetchOp, stale |-> modelsStale]

Apply(w) ==
    /\ state' = w.st
    /\ storage' = w.sto
    /\ fetchOp' = w.fetch
    /\ modelsStale' = (w.stale /\ w.st.availableModels # <<>>)

Merge(st, upd) ==
    [f \in DOMAIN st |-> IF f \in DOMAIN upd THEN upd[f] ELSE st[f]]

(* A state update that cannot change savedApiKey. *)
Put(w, upd) == [w EXCEPT !.st = Merge(w.st, upd)]

(* History only: what was requested under the credential being replaced.  *)
MarkStale(w) ==
    [w EXCEPT !.stale = TRUE,
              !.fetch.stale = (w.fetch.phase # "idle"),
              !.sto.entry.stale = w.sto.entry.present]

(* fetchModels up to its first await: the cache read and the request. *)
fetchModels_IgnoreCache(w, forceRefresh) ==
    IF ~services.api
    THEN [w EXCEPT !.fetch = [phase |-> "noapi", models |-> <<>>, stale |-> FALSE,
                              issued |-> w.fetch.issued,
                              forced |-> forceRefresh]]
    ELSE [w EXCEPT !.fetch = [phase |-> "net", models |-> <<>>, stale |-> FALSE,
                              issued |-> w.fetch.issued + 1,
                              forced |-> forceRefresh]]

fetchModels(w, forceRefresh) ==
    LET c == IF forceRefresh THEN CacheMiss(w.sto)
             ELSE getModelCache(w.sto, now, FIVE_MINUTES)
    IN  IF c.hit
        THEN [w EXCEPT !.sto = c.sto,
                       !.fetch = [phase |-> "hit", models |-> c.models,
                                  stale |-> c.stale,
                                  issued |-> w.fetch.issued, forced |-> forceRefresh]]
        ELSE IF ~services.api
        THEN [w EXCEPT !.sto = c.sto,
                       !.fetch = [phase |-> "noapi", models |-> <<>>,
                                  stale |-> FALSE,
                                  issued |-> w.fetch.issued, forced |-> forceRefresh]]
        ELSE [w EXCEPT !.sto = c.sto,
                       !.fetch = [phase |-> "net", models |-> <<>>,
                                  stale |-> FALSE,
                                  issued |-> w.fetch.issued + 1, forced |-> forceRefresh]]

ensureModelsLoaded_NoKeyCheck(w, forceRefresh) ==
    IF w.st.modelsLoading THEN w
    ELSE fetchModels(Put(w, [modelsLoading |-> TRUE, modelTabError |-> "null"]),
                     forceRefresh)

ensureModelsLoaded_NoLoadingCheck(w, forceRefresh) ==
    IF w.st.savedApiKey = EmptyStr
    THEN Put(w, [modelsLoaded |-> FALSE, availableModels |-> <<>>,
                 modelTabError |-> "save_key_to_load_models"])
    ELSE fetchModels(Put(w, [modelsLoading |-> TRUE, modelTabError |-> "null"]),
                     forceRefresh)

ensureModelsLoaded(w, forceRefresh) ==
    IF w.st.modelsLoading THEN w
    ELSE IF w.st.savedApiKey = EmptyStr
    THEN Put(w, [modelsLoaded |-> FALSE, availableModels |-> <<>>,
                 modelTabError |-> "save_key_to_load_models"])
    ELSE fetchModels(Put(w, [modelsLoading |-> TRUE, modelTabError |-> "null"]),
                     forceRefresh)

componentDidUpdate_ResetOnAnyChange(prevState, w) ==
    IF w.st.savedApiKey # prevState.savedApiKey
    THEN Put([w EXCEPT !.sto = clearModelCache(w.sto)],
             [activeTab |-> "api-key", modelsLoaded |-> FALSE,
              availableModels |-> <<>>, selectedModelId |-> "null",
              modelTestResults |-> <<>>, modelTabError |-> "null"])
    ELSE w

componentDidUpdate(prevState, w) ==
    IF w.st.savedApiKey # prevState.savedApiKey
    THEN LET w1 == [w EXCEPT !.sto = clearModelCache(w.sto)]
         IN  IF w1.st.savedApiKey = EmptyStr
             THEN Put(w1, [activeTab |-> "api-key", modelsLoaded |-> FALSE,
                           availableModels |-> <<>>, selectedModelId |-> "null",
                           modelTestResults |-> <<>>, modelTabError |-> "null"])
             ELSE IF w1.st.activeTab = "model-testing"
             THEN ensureModelsLoaded(w1, TRUE)
             ELSE w1
    ELSE w

(* this.setState(upd): the update, then componentDidUpdate on the result. *)
setState(w, upd) ==
    LET w1 == Put(w, upd)
    IN  componentDidUpdate(w.st,
            IF w1.st.savedApiKey # w.st.savedApiKey THEN MarkStale(w1) ELSE w1)

(* A settings value as the host hands it over: an object, a JSON string    *)
(* of that object, or a string that is not JSON.                           *)
ObjectValue(k) == [kind |-> "object", apiKey |-> k]
JsonValue(k) == [kind |-> "json", apiKey |-> k]
RawStringValue(k) == [kind |-> "raw", apiKey |-> k]
NullValue == [kind |-> "null", apiKey |-> EmptyStr]

processApiKeyData_KeepFlag(w, value) ==
    setState(w, [apiKey |-> value.apiKey, savedApiKey |-> value.apiKey,
                 isLoading |-> FALSE, error |-> "null"])

processApiKeyData(w, value) ==
    setState(w, [apiKey |-> value.apiKey, savedApiKey |-> value.apiKey,
                 isLoading |-> FALSE, error |-> "null",
                 testResult |-> "null", testError |-> "null",
                 hasUnsavedChanges |-> FALSE])

(* The last lines of loadApiKeyStatus. *)
LoadDefaults(w) ==
    setState(w, [isLoading |-> FALSE, apiKey |-> EmptyStr,
                 savedApiKey |-> EmptyStr])

(* loadSettingsFromAPI when no usable instance came back, or the call failed. *)
LoadNotFound(w) ==
    setState(w, [isLoading |-> FALSE, apiKey |-> EmptyStr,
                 savedApiKey |-> EmptyStr,
                 testResult |-> "null", testError |-> "null"])

applyKeyReset_Always(w, keyChanged) ==
    setState(w, [modelsLoaded |-> FALSE, availableModels |-> <<>>,
                 selectedModelId |-> "null", modelTestResults |-> <<>>,
                 modelTabError |-> "null"])

applyKeyReset_Never(w, keyChanged) == w

applyKeyReset(w, keyChanged) ==
    IF ~keyChanged THEN w
    ELSE setState(w, [modelsLoaded |-> FALSE, availableModels |-> <<>>,
                      selectedModelId |-> "null", modelTestResults |-> <<>>,
                      modelTabError |-> "null"])

(* saveApiKey after the write resolved: the setState and its callback. *)
saveSucceeded_KeepFlag(w, op) ==
    applyKeyReset(
        setState(w, [success |-> IF op.apiKey # EmptyStr THEN "saved" ELSE "removed",
                     savedApiKey |-> op.apiKey, isSaving |-> FALSE,
                     testResult |-> "null", testError |-> "null"]),
        op.keyChanged)

saveSucceeded(w, op) ==
    applyKeyReset(
        setState(w, [success |-> IF op.apiKey # EmptyStr THEN "saved" ELSE "removed",
                     savedApiKey |-> op.apiKey, isSaving |-> FALSE,
                     hasUnsavedChanges |-> FALSE,
                     testResult |-> "null", testError |-> "null"]),
        op.keyChanged)

(* saveApiKey's catch block. *)
saveFailed_DropEdit(w) ==
    setState(w, [error |-> "save_failed", isSaving |-> FALSE,
                 apiKey |-> w.st.savedApiKey, hasUnsavedChanges |-> FALSE,
                 testResult |-> "null", testError |-> "null"])

saveFailed_KeepSaving(w) ==
    setState(w, [error |-> "save_failed",
                 testResult |-> "null", testError |-> "null"])

saveFailed(w) ==
    setState(w, [error |-> "save_failed", isSaving |-> FALSE,
                 testResult |-> "null", testError |-> "null"])

----------------------------------------------------------------------------
(* Construction and mount.                                                 *)

IdleTest ==
    [phase |-> "idle",
     result |-> [id |-> <<"", 0>>, modelId |-> "", modelName |-> "",
                 status |-> "unknown", timestamp |-> 0],
     selected |-> [id |-> "", name |-> ""]]

(* The runs explored. Each fixes what the environment may supply: the keys *)
(* the user types, the controls the user operates, the values the settings *)
(* subscription delivers, the catalogue responses, and whether calls to    *)
(* the server may fail.                                                    *)
Controls == {"input", "clear", "save", "test-connection", "tabs", "arrows",
             "refresh", "select", "test-model", "clear-history"}

CredentialRuns ==
    [candidates |-> {EmptyStr, KeyA, KeyNoPrefix},
     controls |-> Controls \ {"test-connection"},
     updates |-> {NullValue, ObjectValue(EmptyStr), RawStringValue(KeyA)},
     responses |-> {},
     failures |-> TRUE,
     tests |-> MaxHistory, saves |-> MaxSaves]

ConnectionRuns ==
    [candidates |-> {EmptyStr, KeyA},
     controls |-> {"input", "save", "test-connection"},
     updates |-> {},
     responses |-> {},
     failures |-> TRUE,
     tests |-> MaxHistory, saves |-> MaxSaves]

ModelRuns ==
    [candidates |-> {EmptyStr, KeyB},
     controls |-> Controls \ {"test-connection", "clear", "test-model",
                              "clear-history"},
     updates |-> {RawStringValue(KeyB)},
     responses |-> Responses,
     failures |-> FALSE,
     tests |-> MaxHistory, saves |-> MaxSaves]

TestRuns ==
    [candidates |-> {EmptyStr, KeyB},
     controls |-> {"input", "save", "tabs", "select", "test-model",
                   "clear-history"},
     updates |-> {RawStringValue(KeyB)},
     responses |-> {[shape |-> "array", items |-> <<RawAlpha, RawBeta>>],
                    ClashingResponse},
     failures |-> FALSE,
     tests |-> MaxHistory, saves |-> MaxSaves]

AllServices ==
    {sv \in [api : BOOLEAN, settings : BOOLEAN, subscribe : BOOLEAN] :
        sv.subscribe => sv.settings}

Step(op) ==
    [op |-> op, keyChanged |-> FALSE, savedChanged |-> FALSE, hadModels |-> FALSE,
     hadResults |-> FALSE]

Init ==
    /\ state = InitialState
    /\ \/ /\ env = CredentialRuns
          /\ services \in AllServices
          /\ storage = [available |-> TRUE, entry |-> NoEntry]
          /\ backend \in {<<>>, <<Instance(1, "USER", KeyA)>>}
       \/ /\ env = ConnectionRuns
          /\ services = [api |-> TRUE, settings |-> TRUE, subscribe |-> FALSE]
          /\ storage = [available |-> TRUE, entry |-> NoEntry]
          /\ backend = <<Instance(1, "user", KeyA)>>
       \/ /\ env = ModelRuns
          /\ services \in {sv \in AllServices : sv.api /\ sv.subscribe = sv.settings}
          /\ storage = [available |-> services.subscribe, entry |-> NoEntry]
          /\ backend = <<Instance(1, "user", KeyA)>>
       \/ /\ env = TestRuns
          /\ services = [api |-> TRUE, settings |-> TRUE, subscribe |-> TRUE]
          /\ storage = [available |-> FALSE, entry |-> NoEntry]
          /\ backend = <<Instance(1, "user", KeyA)>>
    /\ now = TickMs
    /\ loadOp = "register"
    /\ saveOp = <<>>
    /\ fetchOp = IdleFetch
    /\ testOp = IdleTest
    /\ connOp = "idle"
    /\ modelsStale = FALSE
    /\ last = Step("init")

Subscribed == services.subscribe /\ loadOp # "register"

(* A promise that settled without leaving the widget (a cache hit, a       *)
(* rejection before any request, an availability test over the list at     *)
(* hand) has its continuation queued as a microtask: it runs before any    *)
(* other event, timer or response is handled.                              *)
NoPendingJob == fetchOp.phase \notin {"hit", "noapi"} /\ testOp.phase = "idle"

(* What the server answers for an instance: its value with the key masked. *)
ServedValues(inst) ==
    {ObjectValue(Mask(inst.value.apiKey)), JsonValue(Mask(inst.value.apiKey))}

(* loadApiKeyStatus from its settings-service fallback on. *)
LoadViaSettingsOrDefaults(w) ==
    IF services.settings
    THEN Apply(w) /\ loadOp' = "getSetting"
    ELSE Apply(LoadDefaults(w)) /\ loadOp' = "done"

(* componentDidMount once initializeSettingsDefinition has settled (its    *)
(* failures are swallowed): subscribe, then loadApiKeyStatus to its await. *)
MountContinues ==
    /\ NoPendingJob
    /\ loadOp = "register"
    /\ LET w == setState(World, [isLoading |-> TRUE, error |-> "null"])
       IN  IF services.api
           THEN Apply(w) /\ loadOp' = "api"
           ELSE LoadViaSettingsOrDefaults(w)
    /\ last' = Step("other")
    /\ UNCHANGED <<services, backend, now, saveOp, testOp, connOp, env>>

(* loadSettingsFromAPI settles with an instance. *)
LoadFromAPIFinds ==
    /\ NoPendingJob
    /\ loadOp = "api"
    /\ tryScopes(backend) # NoInstance
    /\ \E v \in ServedValues(tryScopes(backend)) :
          Apply(processApiKeyData(World, v))
    /\ loadOp' = "done"
    /\ last' = Step("load-found")
    /\ UNCHANGED <<services, backend, now, saveOp, testOp, connOp, env>>

(* loadSettingsFromAPI settles with no instance, or its request failed;    *)
(* loadApiKeyStatus goes on to its fallbacks.                              *)
LoadFromAPIFindsNothing ==
    /\ NoPendingJob
    /\ loadOp = "api"
    /\ tryScopes(backend) = NoInstance \/ env.failures
    /\ LoadViaSettingsOrDefaults(LoadNotFound(World))
    /\ last' = Step("other")
    /\ UNCHANGED <<services, backend, now, saveOp, testOp, connOp, env>>

(* settings.getSetting settles with a value. *)
GetSettingFinds ==
    /\ NoPendingJob
    /\ loadOp = "getSetting"
    /\ tryScopes(backend) # NoInstance
    /\ \E v \in ServedValues(tryScopes(backend)) :
          Apply(processApiKeyData(World, v))
    /\ loadOp' = "done"
    /\ last' = Step("load-found")
    /\ UNCHANGED <<services, backend, now, saveOp, testOp, connOp, env>>

(* settings.getSetting settles with nothing, or throws. *)
GetSettingFindsNothing ==
    /\ NoPendingJob
    /\ loadOp = "getSetting"
    /\ tryScopes(backend) = NoInstance \/ env.failures
    /\ Apply(LoadDefaults(World))
    /\ loadOp' = "done"
    /\ last' = Step("other")
    /\ UNCHANGED <<services, backend, now, saveOp, testOp, connOp, env>>

(* The settings subscription delivers a value. *)
SettingsUpdated ==
    /\ NoPendingJob
    /\ Subscribed
    /\ \E v \in env.updates :
          IF v.kind = "null" THEN UNCHANGED <<state, storage, fetchOp, modelsStale>>
          ELSE Apply(processApiKeyData(World, v))
    /\ last' = Step("other")
    /\ UNCHANGED <<services, backend, now, loadOp, saveOp, testOp, connOp, env>>

Quiescent ==
    /\ loadOp = "done"
    /\ saveOp = <<>>
    /\ fetchOp.phase = "idle"
    /\ testOp.phase = "idle"
    /\ connOp = "idle"

(* The host unmounts the widget and mounts a new one. *)
Remount ==
    /\ NoPendingJob
    /\ Quiescent
    /\ state' = InitialState
    /\ loadOp' = "register"
    /\ modelsStale' = FALSE
    /\ last' = Step("init")
    /\ UNCHANGED <<services, storage, backend, now, saveOp, fetchOp, testOp,
                   connOp, env>>

(* Time passes. The clock is read only to stamp and to age the cache entry, *)
(* so its advance is followed only while there is an entry.                *)
Tick ==
    /\ NoPendingJob
    /\ storage.entry # NoEntry
    /\ now + TickMs <= (MaxTicks + 1) * TickMs
    /\ now' = now + TickMs
    /\ last' = Step("other")
    /\ UNCHANGED <<state, services, storage, backend, loadOp, saveOp, fetchOp,
                   testOp, connOp, env, modelsStale>>

----------------------------------------------------------------------------
(* Event handlers, as written; the render conditions under which the user  *)
(* can reach each of them follow further down.                             *)

Rest == <<services, backend, now, loadOp, saveOp, testOp, connOp, env>>

handleApiKeyChange(newKey) ==
    /\ Apply(setState(World, [apiKey |-> newKey, error |-> "null",
                              testResult |-> "null", testError |-> "null",
                              hasUnsavedChanges |-> (newKey # state.savedApiKey)]))
    /\ last' = Step("other")
    /\ UNCHANGED Rest

clearApiKey ==
    /\ Apply(setState(World, [apiKey |-> EmptyStr,
                              testResult |-> "null", testError |-> "null",
                              hasUnsavedChanges |-> (state.savedApiKey # EmptyStr)]))
    /\ last' = Step("other")
    /\ UNCHANGED Rest

TabChange_NoGuard(w, tab) ==
    IF tab = w.st.activeTab THEN w
    ELSE LET w1 == setState(w, [activeTab |-> tab])
         IN  IF tab = "model-testing" /\ ~w1.st.modelsLoaded
             THEN ensureModelsLoaded(w1, FALSE)
             ELSE w1

TabChange(w, tab) ==
    IF tab = w.st.activeTab THEN w
    ELSE IF tab = "model-testing" /\ w.st.savedApiKey = EmptyStr
    THEN setState(w, [modelTabError |-> "save_key_to_enable_testing"])
    ELSE LET w1 == setState(w, [activeTab |-> tab])
         IN  IF tab = "model-testing" /\ ~w1.st.modelsLoaded
             THEN ensureModelsLoaded(w1, FALSE)
             ELSE w1

TabRefused(st, tab) ==
    tab # st.activeTab /\ tab = "model-testing" /\ st.savedApiKey = EmptyStr

handleTabChange(tab) ==
    /\ Apply(TabChange(World, tab))
    /\ last' = Step(IF TabRefused(state, tab) THEN "click-refused" ELSE "other")
    /\ UNCHANGED Rest

Tabs == <<"api-key", "model-testing">>

IndexOfTab(tab) == IF tab = Tabs[1] THEN 0 ELSE 1

NextTab(activeTab, key) ==
    Tabs[((IndexOfTab(activeTab) + (IF key = "ArrowRight" THEN 1 ELSE -1)
           + Len(Tabs)) % Len(Tabs)) + 1]

KeyDown(w, key) ==
    IF key \notin {"ArrowRight", "ArrowLeft"} THEN w
    ELSE IF NextTab(w.st.activeTab, key) = "model-testing"
            /\ w.st.savedApiKey = EmptyStr
    THEN w
    ELSE TabChange(w, NextTab(w.st.activeTab, key))

handleTabsKeyDown(key) ==
    /\ Apply(KeyDown(World, key))
    /\ last' = Step(IF key \in {"ArrowRight", "ArrowLeft"}
                       /\ TabRefused(state, NextTab(state.activeTab, key))
                    THEN "arrow-refused" ELSE "other")
    /\ UNCHANGED Rest

handleModelSelect(modelId) ==
    /\ Apply(setState(World, [selectedModelId |->
                                IF modelId = "" THEN "null" ELSE modelId]))
    /\ last' = Step("other")
    /\ UNCHANGED Rest

handleClearTestHistory ==
    /\ Apply(setState(World, [modelTestResults |-> <<>>]))
    /\ last' = Step("other")
    /\ UNCHANGED Rest

handleRefreshModels ==
    /\ Apply(ensureModelsLoaded(World, TRUE))
    /\ last' = Step("other")
    /\ UNCHANGED Rest

HISTORY_LIMIT == 10

Prepend_NoCap(result, results) == <<result>> \o results

Prepend(result, results) ==
    SubSeq(<<result>> \o results, 1,
           IF Len(results) + 1 < HISTORY_LIMIT THEN Len(results) + 1
           ELSE HISTORY_LIMIT)

SelectedModels(st) ==
    SelectSeq(st.availableModels, LAMBDA m : m.id = st.selectedModelId)

handleTestModel ==
    /\ IF state.selectedModelId = "null" \/ state.isModelTesting
       THEN UNCHANGED <<state, storage, fetchOp, modelsStale, testOp>>
       ELSE IF SelectedModels(state) = <<>>
       THEN /\ Apply(setState(World, [modelTabError |-> "select_a_model",
                                      isModelTesting |-> FALSE]))
            /\ UNCHANGED testOp
       ELSE LET w == setState(World, [isModelTesting |-> TRUE,
                                      modelTabError |-> "null"])
                t == testModelAvailability(w.sto, Head(SelectedModels(state)).id,
                                           state.availableModels)
            IN  /\ Apply([w EXCEPT !.sto = t.sto])
                /\ testOp' = [phase |-> "running", result |-> t.result,
                              selected |-> Head(SelectedModels(state))]
    /\ last' = Step("other")
    /\ UNCHANGED <<services, backend, now, loadOp, saveOp, connOp, env>>

(* handleTestModel resumes with the result. *)
ModelTestSettles ==
    /\ testOp.phase = "running"
    /\ Apply(setState(World,
                [modelTestResults |-> Prepend(testOp.result, state.modelTestResults),
                 isModelTesting |-> FALSE]))
    /\ testOp' = IdleTest
    /\ last' = Step(IF Len(state.modelTestResults) = HISTORY_LIMIT
                    THEN "test-recorded-at-limit" ELSE "other")
    /\ UNCHANGED <<services, backend, now, loadOp, saveOp, connOp, env>>

(* handleTestModel's catch block: a fallback result for the model that was *)
(* selected at invocation, and the error's message in the tab's slot.      *)
recordFallback_ErrorOnly(w, selectedModel, message) ==
    setState(w, [isModelTesting |-> FALSE, modelTabError |-> message])

recordFallback(w, selectedModel, message) ==
    setState(w,
        [modelTestResults |->
            Prepend([id |-> <<selectedModel.id, now>>,
                     modelId |-> selectedModel.id,
                     modelName |-> selectedModel.name,
                     status |-> "unknown", timestamp |-> now],
                    w.st.modelTestResults),
         isModelTesting |-> FALSE, modelTabError |-> message])

(* handleTestModel resumes in its catch block: the awaited call rejected.  *)
(* OpenRouterService.testModelAvailability answers from the list it is     *)
(* handed and does not reject; the block serves any service behind the     *)
(* same interface, and is followed only where NextHistory lists it.        *)
ModelTestRejects ==
    /\ testOp.phase = "running"
    /\ \E message \in {"service_error", "Failed to verify model availability."} :
          Apply(recordFallback(World, testOp.selected, message))
    /\ testOp' = IdleTest
    /\ last' = Step("other")
    /\ UNCHANGED <<services, backend, now, loadOp, saveOp, connOp, env>>

ModelsArrived_KeepSelection(w, models) ==
    setState([w EXCEPT !.fetch = IdleFetch, !.stale = w.fetch.stale],
             [availableModels |-> models, modelsLoaded |-> TRUE,
              modelsLoading |-> FALSE, modelTabError |-> "null",
              selectedModelId |->
                 IF w.st.selectedModelId # "null" THEN w.st.selectedModelId
                 ELSE IF Len(models) > 0 THEN models[1].id ELSE "null"])

(* ensureModelsLoaded resumes after fetchModels. *)
ModelsArrived(w, models) ==
    setState([w EXCEPT !.fetch = IdleFetch, !.stale = w.fetch.stale],
             [availableModels |-> models, modelsLoaded |-> TRUE,
              modelsLoading |-> FALSE, modelTabError |-> "null",
              selectedModelId |->
                 IF w.st.selectedModelId # "null"
                    /\ \E i \in 1..Len(models) : models[i].id = w.st.selectedModelId
                 THEN w.st.selectedModelId
                 ELSE IF Len(models) > 0 THEN models[1].id ELSE "null"])

ModelsFailed_ErrorSlot(w, message) ==
    setState([w EXCEPT !.fetch = IdleFetch],
             [modelsLoading |-> FALSE, error |-> message,
              modelsLoaded |-> FALSE])

ModelsFailed(w, message) ==
    setState([w EXCEPT !.fetch = IdleFetch],
             [modelsLoading |-> FALSE, modelTabError |-> message,
              modelsLoaded |-> FALSE])

ResponseArrived_AcceptEmpty(w, r) ==
    ModelsArrived(
        [w EXCEPT !.sto = setModelCache(w.sto, NormalizedModels(r), now,
                                        w.fetch.stale)],
        NormalizedModels(r))

(* fetchModels from the response on, then ensureModelsLoaded's setState. *)
ResponseArrived(w, r) ==
    IF NormalizedModels(r) = <<>>
    THEN ModelsFailed(w, "No models returned from OpenRouter")
    ELSE ModelsArrived(
            [w EXCEPT !.sto = setModelCache(w.sto, NormalizedModels(r), now,
                                            w.fetch.stale)],
            NormalizedModels(r))

CachedModelsReturned ==
    /\ fetchOp.phase = "hit"
    /\ Apply(ModelsArrived(World, fetchOp.models))
    /\ last' = Step("other")
    /\ UNCHANGED Rest

FetchRejectedWithoutApi ==
    /\ fetchOp.phase = "noapi"
    /\ Apply(ModelsFailed(World, "API service unavailable"))
    /\ last' = Step("other")
    /\ UNCHANGED Rest

FetchFails ==
    /\ NoPendingJob
    /\ fetchOp.phase = "net"
    /\ env.failures \/ env.responses = {}
    /\ Apply(ModelsFailed(World, "Failed to load available models"))
    /\ last' = Step("other")
    /\ UNCHANGED Rest

FetchResponds ==
    /\ NoPendingJob
    /\ fetchOp.phase = "net"
    /\ \E r \in env.responses : Apply(ResponseArrived(World, r))
    /\ last' = Step("other")
    /\ UNCHANGED Rest

----------------------------------------------------------------------------
(* saveApiKey and saveSettingsToAPI.                                       *)

RemoveAt(seq, i) == SubSeq(seq, 1, i - 1) \o SubSeq(seq, i + 1, Len(seq))

SaveCall(phase, apiKey, keyChanged) ==
    [phase |-> phase, apiKey |-> apiKey, keyChanged |-> keyChanged,
     value |-> [apiKey |-> trim(apiKey), enabled |-> apiKey # EmptyStr],
     existingId |-> 0, existingScope |-> "user"]

saveApiKey ==
    /\ IF state.apiKey # EmptyStr /\ ~validateApiKey(state.apiKey).isValid
       THEN /\ Apply(setState(World, [error |-> validateApiKey(state.apiKey).error]))
            /\ last' = Step("save-rejected")
            /\ UNCHANGED saveOp
       ELSE LET w == setState(World, [isSaving |-> TRUE, error |-> "null",
                                      success |-> "null"])
                keyChanged == state.apiKey # state.savedApiKey
            IN  /\ Len(saveOp) < env.saves
                /\ IF services.api
                   THEN /\ Apply(w)
                        /\ last' = Step("other")
                        /\ saveOp' = Append(saveOp,
                              SaveCall("find", state.apiKey, keyChanged))
                   ELSE IF services.settings
                   THEN /\ Apply(w)
                        /\ last' = Step("other")
                        /\ saveOp' = Append(saveOp,
                              SaveCall("setSetting", state.apiKey, keyChanged))
                   ELSE /\ Apply(saveFailed(w))
                        /\ last' = Step("save-failed")
                        /\ UNCHANGED saveOp
    /\ UNCHANGED <<services, backend, now, loadOp, testOp, connOp, env>>

(* saveSettingsToAPI: the lookup of the existing instance settles. A       *)
(* failed lookup is swallowed and the write goes out without an id.        *)
findExistingInstance(instances) == tryScopes(instances)

LookupSettles(i) ==
    /\ NoPendingJob
    /\ saveOp[i].phase = "find"
    /\ \/ saveOp' = [saveOp EXCEPT ![i].phase = "post",
                        ![i].existingId = findExistingInstance(backend).id,
                        ![i].existingScope =
                            IF findExistingInstance(backend) = NoInstance
                            THEN "user"
                            ELSE findExistingInstance(backend).scope]
       \/ /\ env.failures
          /\ Len(backend) < MaxInstances
          /\ saveOp' = [saveOp EXCEPT ![i].phase = "post"]
    /\ last' = Step("other")
    /\ UNCHANGED <<state, services, storage, backend, now, loadOp, fetchOp,
                   testOp, connOp, env, modelsStale>>

(* The write (api.post or settings.setSetting) settles. *)
WriteSucceeds(i) ==
    /\ NoPendingJob
    /\ saveOp[i].phase \in {"post", "setSetting"}
    /\ saveOp[i].phase = "post" /\ saveOp[i].existingId = 0
          => Len(backend) < MaxInstances
    /\ backend' =
          IF saveOp[i].phase = "post"
          THEN PostInstance(backend, [id |-> saveOp[i].existingId,
                                      scope |-> saveOp[i].existingScope,
                                      value |-> saveOp[i].value])
          ELSE SetSettingOnHost(backend, saveOp[i].value)
    /\ Apply(saveSucceeded(World, saveOp[i]))
    /\ saveOp' = RemoveAt(saveOp, i)
    /\ last' = [op |-> "save-succeeded", keyChanged |-> saveOp[i].keyChanged,
                savedChanged |-> saveOp[i].apiKey # state.savedApiKey,
                hadModels |-> state.availableModels # <<>>,
                hadResults |-> state.modelTestResults # <<>>]
    /\ UNCHANGED <<services, now, loadOp, testOp, connOp, env>>

WriteFails(i) ==
    /\ NoPendingJob
    /\ saveOp[i].phase \in {"post", "setSetting"}
    /\ env.failures
    /\ Apply(saveFailed(World))
    /\ saveOp' = RemoveAt(saveOp, i)
    /\ last' = Step("save-failed")
    /\ UNCHANGED <<services, backend, now, loadOp, testOp, connOp, env>>

(* setTimeout(() => this.setState({ success: null }), 3000) *)
SuccessNoticeExpires ==
    /\ NoPendingJob
    /\ state.success # "null"
    /\ Apply(setState(World, [success |-> "null"]))
    /\ last' = Step("other")
    /\ UNCHANGED Rest

----------------------------------------------------------------------------
(* handleTestConnection.                                                   *)

handleTestConnection_NoUnsavedCheck ==
    /\ IF state.isTesting \/ state.isSaving
       THEN UNCHANGED <<state, storage, fetchOp, modelsStale, connOp>>
       ELSE IF ~services.api
       THEN /\ Apply(setState(World, [testError |-> "api_unavailable",
                                      testResult |-> "null"]))
            /\ UNCHANGED connOp
       ELSE IF state.savedApiKey = EmptyStr
       THEN /\ Apply(setState(World, [testError |-> "save_key_first",
                                      testResult |-> "null"]))
            /\ UNCHANGED connOp
       ELSE /\ Apply(setState(World, [isTesting |-> TRUE, testError |-> "null",
                                      testResult |-> "null", success |-> "null",
                                      error |-> "null"]))
            /\ connOp' = "running"
    /\ last' = Step("other")
    /\ UNCHANGED <<services, backend, now, loadOp, saveOp, testOp, env>>

handleTestConnection ==
    /\ IF state.isTesting \/ state.isSaving
       THEN UNCHANGED <<state, storage, fetchOp, modelsStale, connOp>>
       ELSE IF ~services.api
       THEN /\ Apply(setState(World, [testError |-> "api_unavailable",
                                      testResult |-> "null"]))
            /\ UNCHANGED connOp
       ELSE IF state.savedApiKey = EmptyStr
       THEN /\ Apply(setState(World, [testError |-> "save_key_first",
                                      testResult |-> "null"]))
            /\ UNCHANGED connOp
       ELSE IF state.hasUnsavedChanges
       THEN /\ Apply(setState(World, [testError |-> "save_changes_first",
                                      testResult |-> "null"]))
            /\ UNCHANGED connOp
       ELSE /\ Apply(setState(World, [isTesting |-> TRUE, testError |-> "null",
                                      testResult |-> "null", success |-> "null",
                                      error |-> "null"]))
            /\ connOp' = "running"
    /\ last' = Step("other")
    /\ UNCHANGED <<services, backend, now, loadOp, saveOp, testOp, env>>

ConnectionTestSucceeds ==
    /\ NoPendingJob
    /\ connOp = "running"
    /\ Apply(setState(setState(World, [testResult |-> "connection_ok"]),
                      [isTesting |-> FALSE]))
    /\ connOp' = "idle"
    /\ last' = Step("other")
    /\ UNCHANGED <<services, backend, now, loadOp, saveOp, testOp, env>>

ConnectionTestFails ==
    /\ NoPendingJob
    /\ connOp = "running"
    /\ env.failures
    /\ Apply(setState(setState(World, [testError |-> "connection_failed",
                                       testResult |-> "null"]),
                      [isTesting |-> FALSE]))
    /\ connOp' = "idle"
    /\ last' = Step("other")
    /\ UNCHANGED <<services, backend, now, loadOp, saveOp, testOp, env>>

(* The 4000 ms timer that withdraws the message it set. *)
ConnectionNoticeExpires ==
    /\ NoPendingJob
    /\ state.testResult # "null"
    /\ Apply(setState(World, [testResult |-> "null"]))
    /\ last' = Step("other")
    /\ UNCHANGED Rest

----------------------------------------------------------------------------
(* render: which controls exist and are enabled.                           *)

Rendered == ~state.isLoading
ApiKeyPanel == Rendered /\ state.activeTab = "api-key"
ModelTestingPanel == Rendered /\ state.activeTab = "model-testing"

InputEnabled == ApiKeyPanel /\ ~state.isSaving
ClearButton == ApiKeyPanel /\ state.apiKey # EmptyStr /\ ~state.isSaving
SaveButton == ApiKeyPanel /\ ~(state.isSaving \/ ~state.hasUnsavedChanges)
TestConnectionButton ==
    ApiKeyPanel /\ ~(state.isSaving \/ state.isTesting
                     \/ state.savedApiKey = EmptyStr \/ ~services.api)
TabButton(tab) ==
    Rendered /\ ~(tab = "model-testing" /\ state.savedApiKey = EmptyStr)
RefreshButton ==
    ModelTestingPanel /\ ~(state.modelsLoading \/ state.savedApiKey = EmptyStr)
ModelDropdown ==
    ModelTestingPanel /\ ~(state.modelsLoading \/ state.savedApiKey = EmptyStr
                           \/ state.availableModels = <<>>)
TestModelButton ==
    ModelTestingPanel
    /\ ~(state.savedApiKey = EmptyStr \/ state.availableModels = <<>>
         \/ state.modelsLoading)
    /\ SelectedModels(state) # <<>>
    /\ ~state.isModelTesting
ClearHistoryButton == ModelTestingPanel /\ state.modelTestResults # <<>>

ModelIds(st) == {st.availableModels[i].id : i \in 1..Len(st.availableModels)}

----------------------------------------------------------------------------
(* The widget as the user and the host drive it.                           *)

TypeKey ==
    /\ NoPendingJob
    /\ "input" \in env.controls
    /\ InputEnabled
    /\ \E k \in env.candidates : handleApiKeyChange(k)
ClickClear ==
    /\ NoPendingJob
    /\ "clear" \in env.controls
    /\ ClearButton
    /\ clearApiKey
ClickSave ==
    /\ NoPendingJob
    /\ "save" \in env.controls
    /\ SaveButton
    /\ saveApiKey
ClickTestConnection ==
    /\ NoPendingJob
    /\ "test-connection" \in env.controls
    /\ TestConnectionButton
    /\ handleTestConnection
ClickTab ==
    /\ NoPendingJob
    /\ "tabs" \in env.controls
    /\ \E tab \in {"api-key", "model-testing"} : TabButton(tab) /\ handleTabChange(tab)
PressArrow ==
    /\ NoPendingJob
    /\ "arrows" \in env.controls
    /\ Rendered
    /\ \E key \in {"ArrowRight", "ArrowLeft"} : handleTabsKeyDown(key)
ClickRefresh ==
    /\ NoPendingJob
    /\ "refresh" \in env.controls
    /\ RefreshButton
    /\ handleRefreshModels
SelectModel ==
    /\ NoPendingJob
    /\ "select" \in env.controls
    /\ ModelDropdown
    /\ \E id \in ModelIds(state) : handleModelSelect(id)
ClickTestModel ==
    /\ NoPendingJob
    /\ "test-model" \in env.controls
    /\ TestModelButton
    /\ Len(state.modelTestResults) < env.tests
    /\ handleTestModel
ClickClearHistory ==
    /\ NoPendingJob
    /\ "clear-history" \in env.controls
    /\ ClearHistoryButton
    /\ handleClearTestHistory

Next ==
    \/ MountContinues
    \/ LoadFromAPIFinds
    \/ LoadFromAPIFindsNothing
    \/ GetSettingFinds
    \/ GetSettingFindsNothing
    \/ SettingsUpdated
    \/ Remount
    \/ Tick
    \/ TypeKey
    \/ ClickClear
    \/ ClickSave
    \/ \E i \in 1..Len(saveOp) : LookupSettles(i)
    \/ \E i \in 1..Len(saveOp) : WriteSucceeds(i)
    \/ \E i \in 1..Len(saveOp) : WriteFails(i)
    \/ SuccessNoticeExpires
    \/ ClickTestConnection
    \/ ConnectionTestSucceeds
    \/ ConnectionTestFails
    \/ ConnectionNoticeExpires
    \/ ClickTab
    \/ PressArrow
    \/ ClickRefresh
    \/ CachedModelsReturned
    \/ FetchRejectedWithoutApi
    \/ FetchFails
    \/ FetchResponds
    \/ SelectModel
    \/ ClickTestModel
    \/ ModelTestSettles
    \/ ClickClearHistory

Spec == Init /\ [][Next]_vars

(* The same widget with handleTabChange also invoked directly, whatever    *)
(* the tab button's disabled attribute says.                               *)
InvokeTabChange ==
    /\ NoPendingJob
    /\ "tabs" \in env.controls
    /\ Rendered
    /\ \E tab \in {"api-key", "model-testing"} : handleTabChange(tab)

(* handleRefreshModels and handleTestConnection invoked directly as well.  *)
InvokeRefresh ==
    /\ NoPendingJob
    /\ "refresh" \in env.controls
    /\ Rendered
    /\ handleRefreshModels

InvokeTestConnection ==
    /\ NoPendingJob
    /\ "test-connection" \in env.controls
    /\ Rendered
    /\ handleTestConnection

(* handleTestModel called again before the test it started has resumed. *)
InvokeTestModel ==
    /\ testOp.phase = "running"
    /\ "test-model" \in env.controls
    /\ handleTestModel

NextHandlers ==
    \/ Next
    \/ InvokeTabChange
    \/ InvokeRefresh
    \/ InvokeTestConnection
    \/ InvokeTestModel

SpecHandlers == Init /\ [][NextHandlers]_vars

----------------------------------------------------------------------------
(* validateApiKey over many inputs: the widget as it stands once the user  *)
(* has put one of KeyInputs into the field of a mounted widget that holds   *)
(* no key, and presses Save.                                               *)

Prefixes == {KeyPrefix, <<"s", "k", "-", "o", "r">>, <<"S", "K", "-", "O", "R", "-">>}

Fills == {0, 18, 19, 20, 21}

Filled(p, m) == p \o Rep("a", m)

WithChar(s, c, i) == SubSeq(s, 1, i) \o <<c>> \o SubSeq(s, i + 1, Len(s))

KeyInputs ==
    {Filled(p, m) : p \in Prefixes, m \in Fills}
    \cup {WithChar(Filled(p, m), c, Len(p)) :
             p \in Prefixes, m \in Fills, c \in {" ", "\t", "\n"}}
    \cup {WithChar(Filled(p, m), c, Len(p) + m) :
             p \in Prefixes, m \in Fills, c \in {" ", "\t", "\n"}}
    \cup {KeyA, KeyShort, KeyNoPrefix, KeyInnerSpace}

ValidationRuns ==
    [candidates |-> KeyInputs,
     controls |-> {"save"},
     updates |-> {},
     responses |-> {},
     failures |-> TRUE,
     tests |-> MaxHistory, saves |-> MaxSaves]

InitValidate ==
    /\ \E k \in KeyInputs :
          state = [InitialState EXCEPT !.isLoading = FALSE, !.apiKey = k,
                                       !.hasUnsavedChanges = TRUE]
    /\ env = ValidationRuns
    /\ services \in {sv \in AllServices : ~sv.subscribe}
    /\ storage = [available |-> TRUE, entry |-> NoEntry]
    /\ backend = <<>>
    /\ now = TickMs
    /\ loadOp = "done"
    /\ saveOp = <<>>
    /\ fetchOp = IdleFetch
    /\ testOp = IdleTest
    /\ connOp = "idle"
    /\ modelsStale = FALSE
    /\ last = Step("other")

NextValidate ==
    \/ ClickSave
    \/ \E i \in 1..Len(saveOp) : LookupSettles(i)
    \/ \E i \in 1..Len(saveOp) : WriteSucceeds(i)
    \/ \E i \in 1..Len(saveOp) : WriteFails(i)
    \/ SuccessNoticeExpires

SpecValidate == InitValidate /\ [][NextValidate]_vars

----------------------------------------------------------------------------
(* C1: for every candidate string s, validateApiKey(s) reports valid if    *)
(* and only if s is empty, or s starts with 'sk-or-' and has length >= 26  *)
(* and contains no space, tab or newline character. Stated of the string   *)
(* in the input field. The code has no whitespace rule, so this fails.     *)
WellFormedKey(s) ==
    \/ s = EmptyStr
    \/ startsWith(s, KeyPrefix) /\ Len(s) >= MinKeyLength /\ ~HasWhitespace(s)

C1_ValidIffWellFormed ==
    validateApiKey(state.apiKey).isValid <=> WellFormedKey(state.apiKey)

(* C2: when saveApiKey is invoked with a non-empty pending value that      *)
(* fails validation, no request is issued (no lookup, no write), the       *)
(* validator's error is put in the error slot, isSaving does not become    *)
(* true, and apiKey, savedApiKey and hasUnsavedChanges are unchanged.      *)
FailsValidation(s) ==
    s # EmptyStr /\ (~startsWith(s, KeyPrefix) \/ Len(s) < MinKeyLength)

C2_RejectedSaveIssuesNothing ==
    [][(ClickSave /\ FailsValidation(state.apiKey)) =>
          /\ saveOp' = saveOp
          /\ backend' = backend
          /\ state'.error \in {"must_start_with_sk-or-", "too_short"}
          /\ state'.error = validateApiKey(state.apiKey).error
          /\ ~state'.isSaving
          /\ state'.apiKey = state.apiKey
          /\ state'.savedApiKey = state.savedApiKey
          /\ state'.hasUnsavedChanges = state.hasUnsavedChanges]_vars

C2_Witness ==
    /\ last.op = "save-rejected"
    /\ state.error = "too_short"
    /\ Len(state.apiKey) = MinKeyLength - 1
    /\ saveOp = <<>>

----------------------------------------------------------------------------
(* C3: in every state reached after a save has completed successfully the *)
(* pending raw buffer state.apiKey is empty. Stated of the state right     *)
(* after the step in which the save completes. The code never clears       *)
(* apiKey on success, so this fails.                                       *)
C3_BufferEmptyAfterSave ==
    last.op = "save-succeeded" => state.apiKey = EmptyStr

(* C4: round trip. When a load hands back the stored instance of a saved   *)
(* non-empty credential k, the widget shows a credential as present        *)
(* (savedApiKey non-empty, hasUnsavedChanges false) and the value it holds *)
(* for display is not the raw value k.                                     *)
LoadedBack(st, k) ==
    /\ st.savedApiKey # EmptyStr
    /\ ~st.hasUnsavedChanges
    /\ st.apiKey # k
    /\ st.savedApiKey # k

C5_SuccessfulSaveRecorded ==
    [][\A i \in 1..Len(saveOp) : WriteSucceeds(i) =>
          /\ state'.savedApiKey = saveOp[i].apiKey
          /\ ~state'.hasUnsavedChanges
          /\ ~state'.isSaving
          /\ state'.error = "null"
          /\ state'.success # "null"]_vars

C5_Witness ==
    /\ last.op = "save-succeeded"
    /\ state.savedApiKey = KeyA
    /\ state.success = "saved"
    /\ ~state.hasUnsavedChanges
    /\ ~state.isSaving

(* C6: when the write of a save fails (transport error, or neither service *)
(* can write), error becomes the save-failure message and isSaving false;  *)
(* no step of the save, from the click to the failure, changes             *)
(* savedApiKey, apiKey or hasUnsavedChanges, so the save can be retried.   *)
SaveStep ==
    \/ ClickSave
    \/ \E i \in 1..Len(saveOp) : LookupSettles(i)
    \/ \E i \in 1..Len(saveOp) : WriteFails(i)

C6_FailedSaveKeepsEdit ==
    [][(SaveStep =>
           /\ state'.savedApiKey = state.savedApiKey
           /\ state'.apiKey = state.apiKey
           /\ state'.hasUnsavedChanges = state.hasUnsavedChanges)
       /\ (((\E i \in 1..Len(saveOp) : WriteFails(i))
            \/ (ClickSave /\ ~services.api /\ ~services.settings
                /\ ~FailsValidation(state.apiKey)))
           => /\ state'.error = "save_failed"
              /\ ~state'.isSaving
              /\ backend' = backend)]_vars

C6_Witness ==
    /\ last.op = "save-failed"
    /\ services.api
    /\ state.error = "save_failed"
    /\ ~state.isSaving
    /\ state.apiKey = KeyA
    /\ state.savedApiKey = EmptyStr
    /\ state.hasUnsavedChanges
    /\ SaveButton

(* C7: whenever a successful save changes the saved credential value, all *)
(* model-testing state is invalidated: the cache entry is removed,         *)
(* availableModels is emptied, modelsLoaded is false, selectedModelId is   *)
(* null, modelTestResults is empty and modelTabError is null.              *)
ModelTestingState(st, sto) ==
    [entry |-> sto.entry, availableModels |-> st.availableModels,
     modelsLoaded |-> st.modelsLoaded, selectedModelId |-> st.selectedModelId,
     modelTestResults |-> st.modelTestResults, modelTabError |-> st.modelTabError]

Invalidated ==
    [entry |-> NoEntry, availableModels |-> <<>>, modelsLoaded |-> FALSE,
     selectedModelId |-> "null", modelTestResults |-> <<>>,
     modelTabError |-> "null"]

C7_KeyChangeInvalidatesModels ==
    [][\A i \in 1..Len(saveOp) :
          (WriteSucceeds(i) /\ state'.savedApiKey # state.savedApiKey)
          => ModelTestingState(state', storage') = Invalidated]_vars

C7_Witness ==
    /\ last.op = "save-succeeded"
    /\ last.savedChanged
    /\ last.hadModels
    /\ state.savedApiKey = KeyB
    /\ ModelTestingState(state, storage) = Invalidated

(* C8 as stated: a successful save whose submitted value equals the value  *)
(* saved until then leaves the model-testing state unchanged. Fails when   *)
(* the settings subscription delivered that value while the save was in    *)
(* flight.                                                                 *)
C8_SameValueSaveKeepsModels ==
    [][\A i \in 1..Len(saveOp) :
          (WriteSucceeds(i) /\ saveOp[i].apiKey = state.savedApiKey)
          => ModelTestingState(state', storage') = ModelTestingState(state, storage)]_vars

(* C8 read with the value saved when the save was invoked: fails too.      *)
C8_SameValueAtInvocationKeepsModels ==
    [][\A i \in 1..Len(saveOp) :
          (WriteSucceeds(i) /\ ~saveOp[i].keyChanged)
          => ModelTestingState(state', storage') = ModelTestingState(state, storage)]_vars

(* C8 amended: a successful save whose submitted value equals the saved    *)
(* value both when the save was invoked and when it completes leaves the   *)
(* model cache entry, availableModels, modelsLoaded, selectedModelId,      *)
(* modelTestResults and modelTabError unchanged.                           *)
C8_UnchangedKeySaveKeepsModels ==
    [][\A i \in 1..Len(saveOp) :
          (WriteSucceeds(i) /\ ~saveOp[i].keyChanged
           /\ saveOp[i].apiKey = state.savedApiKey)
          => ModelTestingState(state', storage') = ModelTestingState(state, storage)]_vars

C8_Witness ==
    /\ last.op = "save-succeeded"
    /\ ~last.keyChanged
    /\ ~last.savedChanged
    /\ state.modelTabError # "null"

(* C9: once the saved credential value has changed, neither the model      *)
(* cache nor availableModels holds a list that was requested while an      *)
(* earlier credential value was the saved one. The code does not tell the  *)
(* answers of earlier requests apart, so this fails.                       *)
C9_NoListFromEarlierCredential ==
    ~modelsStale /\ ~storage.entry.stale

(* C10: while no credential is saved, a request to switch to the           *)
(* model-testing tab, by click or by arrow key, leaves activeTab at        *)
(* 'api-key'; in every reachable state activeTab = 'model-testing' implies *)
(* savedApiKey is non-empty; a refused click sets modelTabError.           *)
TabNeedsKey ==
    state.activeTab = "model-testing" => state.savedApiKey # EmptyStr

C10_TabGuard ==
    /\ []TabNeedsKey
    /\ [][((InvokeTabChange \/ PressArrow) /\ state.savedApiKey = EmptyStr)
          => state'.activeTab = "api-key"]_vars
    /\ [][(handleTabChange("model-testing") /\ state.savedApiKey = EmptyStr)
          => /\ state'.modelTabError # "null"
             /\ state'.activeTab = state.activeTab]_vars

C10_Witness ==
    /\ last.op = "click-refused"
    /\ state.savedApiKey = EmptyStr
    /\ state.activeTab = "api-key"
    /\ state.modelTabError = "save_key_to_enable_testing"

-----------------------------------------------------------------------------
(* C11: no request to the provider-models endpoint is issued while          *)
(* savedApiKey is empty. A step issues such a request when fetchModels      *)
(* goes to the network or when handleTestConnection starts its call; in     *)
(* every such step the widget holds a non-empty savedApiKey, whichever      *)
(* handler (tab change, refresh, model test, connection test) was invoked.  *)
RequestIssued ==
    \/ fetchOp.phase # "net" /\ fetchOp'.phase = "net"
    \/ connOp # "running" /\ connOp' = "running"

C11_NoRequestWithoutSavedKey ==
    [][RequestIssued => state'.savedApiKey # EmptyStr]_vars

(* A fetch in flight belongs to the one ensureModelsLoaded that set         *)
(* modelsLoading, so no second request starts while one is pending.         *)
FetchInFlightIsLoading == fetchOp.phase = "net" => state.modelsLoading

(* A refresh was invoked with no saved key and was answered with the hint; *)
(* elsewhere a request is in flight for a widget that holds a key.          *)
C11_Witness ==
    /\ state.savedApiKey = EmptyStr
    /\ state.modelTabError = "save_key_to_load_models"
    /\ fetchOp.phase = "idle"

C11_WitnessIssued ==
    /\ fetchOp.phase = "net"
    /\ state.savedApiKey # EmptyStr
-----------------------------------------------------------------------------
(* C12: after any sequence of saves and removes (lookups that fail           *)
(* included) the backend holds at most one settings instance for the         *)
(* definition and current user, because every write through api.post        *)
(* carries the id of the existing instance exactly when one exists.         *)
WriteSettles(i) == WriteSucceeds(i) \/ WriteFails(i)

WriteCarriesExistingId ==
    \A i \in DOMAIN saveOp :
        WriteSettles(i) /\ saveOp[i].phase = "post"
            => (saveOp[i].existingId # 0 <=> findExistingInstance(backend) # NoInstance)

AtMostOneInstance == Len(backend) <= 1

C12_SingleInstance ==
    [][WriteCarriesExistingId /\ AtMostOneInstance']_vars
-----------------------------------------------------------------------------
(* The test history at length: a widget that has loaded its key and a       *)
(* one-model catalogue and shows the model tab, with the user testing the   *)
(* selected model and clearing the history while time passes. The awaited   *)
(* availability call is left open here: it resolves or it rejects.          *)
HistoryRuns ==
    [candidates |-> {},
     controls |-> {"test-model", "clear-history"},
     updates |-> {},
     responses |-> {},
     failures |-> FALSE,
     tests |-> HISTORY_LIMIT + 1]

LoadedCatalogue ==
    NormalizedModels([shape |-> "data.models", items |-> <<RawBlank, RawBeta>>])

HistoryStart ==
    /\ state = [InitialState EXCEPT !.apiKey = Mask(KeyA),
                                    !.savedApiKey = Mask(KeyA),
                                    !.isLoading = FALSE,
                                    !.activeTab = "model-testing",
                                    !.modelsLoaded = TRUE,
                                    !.availableModels = LoadedCatalogue,
                                    !.selectedModelId = "m-beta"]
    /\ services = [api |-> TRUE, settings |-> TRUE, subscribe |-> TRUE]
    /\ storage = setModelCache([available |-> TRUE, entry |-> NoEntry],
                               LoadedCatalogue, TickMs, FALSE)
    /\ backend = <<Instance(1, "user", KeyA)>>
    /\ now = TickMs
    /\ loadOp = "done"
    /\ saveOp = <<>>
    /\ fetchOp = IdleFetch
    /\ testOp = IdleTest
    /\ connOp = "idle"
    /\ modelsStale = FALSE
    /\ last = Step("other")

InitHistory == env = HistoryRuns /\ HistoryStart

NextHistory ==
    \/ ClickTestModel
    \/ ModelTestSettles
    \/ ModelTestRejects
    \/ ClickClearHistory
    \/ Tick

SpecHistory == InitHistory /\ [][NextHistory]_vars

(* C13: modelTestResults never holds more than ten entries and is ordered   *)
(* newest first; recording a result prepends it and keeps at most the nine  *)
(* newest earlier entries, so a full history stays at ten entries with the  *)
(* new result first and the oldest one dropped.                             *)
NewestFirst(results) ==
    \A i \in 1..(Len(results) - 1) : results[i].timestamp >= results[i + 1].timestamp

KeptEarlier(results) ==
    SubSeq(results, 1,
           IF Len(results) < HISTORY_LIMIT THEN Len(results) ELSE HISTORY_LIMIT - 1)

C13_HistoryCappedNewestFirst ==
    [][/\ Len(state'.modelTestResults) <= HISTORY_LIMIT
       /\ NewestFirst(state'.modelTestResults)
       /\ ModelTestSettles
             => state'.modelTestResults
                   = <<testOp.result>> \o KeptEarlier(state.modelTestResults)]_vars

(* A result was recorded into a full history that spans both clock values. *)
C13_Witness ==
    /\ last.op = "test-recorded-at-limit"
    /\ Len(state.modelTestResults) = HISTORY_LIMIT
    /\ state.modelTestResults[1].timestamp > state.modelTestResults[HISTORY_LIMIT].timestamp
-----------------------------------------------------------------------------
(* C14: every model test invocation (a selected model of the list, no test  *)
(* in flight) records exactly one result. The invocation starts the call    *)
(* and records nothing yet; the call's outcome, resolved or thrown, is the  *)
(* next step and prepends one result; nothing else ever adds a result.      *)
(* When the call throws, the recorded result has status 'unknown' and the   *)
(* error's message is in modelTabError.                                     *)
Invoked ==
    /\ testOp.phase = "idle"
    /\ handleTestModel
    /\ state.selectedModelId # "null"
    /\ SelectedModels(state) # <<>>

RecordedOne ==
    /\ state'.modelTestResults # <<>>
    /\ Tail(state'.modelTestResults) = KeptEarlier(state.modelTestResults)

C14_OneResultPerTest ==
    [][/\ Invoked => /\ testOp'.phase = "running"
                     /\ state'.isModelTesting
                     /\ state'.modelTestResults = state.modelTestResults
       /\ testOp.phase = "running"
             => /\ testOp'.phase = "idle"
                /\ ~state'.isModelTesting
                /\ RecordedOne
                /\ \/ Head(state'.modelTestResults) = testOp.result
                   \/ /\ ModelTestRejects
                      /\ Head(state'.modelTestResults).status = "unknown"
                      /\ Head(state'.modelTestResults).modelId = testOp.selected.id
                      /\ state'.modelTabError
                            \in {"service_error", "Failed to verify model availability."}
       /\ testOp.phase = "idle"
             => \/ state'.modelTestResults = state.modelTestResults
                \/ state'.modelTestResults = <<>>]_vars

(* A test was invoked and its result is the first entry of the history. *)
C14_Witness ==
    /\ testOp.phase = "idle"
    /\ Len(state.modelTestResults) > 1
    /\ state.modelTestResults[1].status = "available"
    /\ state.modelTestResults[2].status = "unknown"
    /\ ~state.isModelTesting
-----------------------------------------------------------------------------
(* C15: the test history is cleared only by handleClearTestHistory: in any  *)
(* other step every entry of modelTestResults is still there afterwards,    *)
(* except an entry pushed out by the cap when a result is recorded. The    *)
(* steps are those of one mounted widget; a new mount starts empty.         *)
HistoryKept ==
    \/ state'.modelTestResults = state.modelTestResults
    \/ /\ state'.modelTestResults # <<>>
       /\ Tail(state'.modelTestResults) = KeptEarlier(state.modelTestResults)

C15_OnlyClearHistoryClears ==
    [][HistoryKept \/ ClickClearHistory \/ Remount]_vars

(* C15 as the code has it: the history is lost only by                      *)
(* handleClearTestHistory, by a successful save whose key differs from the  *)
(* saved one at invocation (applyKeyReset), when savedApiKey becomes empty  *)
(* (componentDidUpdate), or when the widget is mounted anew.                *)
KeyChangingSaveCompletes ==
    \E i \in DOMAIN saveOp : WriteSucceeds(i) /\ saveOp[i].keyChanged

SavedKeyBecomesEmpty ==
    state.savedApiKey # EmptyStr /\ state'.savedApiKey = EmptyStr

C15_ClearedByClearOrKeyChange ==
    [][\/ HistoryKept
       \/ ClickClearHistory
       \/ KeyChangingSaveCompletes
       \/ SavedKeyBecomesEmpty
       \/ Remount]_vars

(* A save that replaced the key by another one has emptied the history. *)
C15_Witness ==
    /\ last.op = "save-succeeded"
    /\ last.keyChanged
    /\ last.hadResults
    /\ state.savedApiKey # EmptyStr
    /\ state.modelTestResults = <<>>
-----------------------------------------------------------------------------
(* modelUtils on its own: the cache written, read with several ttls and     *)
(* cleared while the clock advances, by one millisecond or by the default   *)
(* ttl, so that reads fall on both sides of the expiry boundary.            *)
MaxCacheSteps == 4

CacheTimes == {k * FIVE_MINUTES + j : k \in 0..1, j \in 1..MaxCacheSteps}

Ttls == {0, 1, FIVE_MINUTES}

Catalogues ==
    {NormalizedModels([shape |-> "array", items |-> <<RawAlpha, RawBeta>>]),
     LoadedCatalogue}

CacheRuns ==
    [candidates |-> {}, controls |-> {}, updates |-> {}, responses |-> {},
     failures |-> FALSE, tests |-> 0, saves |-> MaxSaves]

InitCache ==
    /\ env = CacheRuns
    /\ state = InitialState
    /\ services = [api |-> FALSE, settings |-> FALSE, subscribe |-> FALSE]
    /\ storage \in {[available |-> a, entry |-> NoEntry] : a \in BOOLEAN}
    /\ backend = <<>>
    /\ now = 1
    /\ loadOp = "register"
    /\ saveOp = <<>>
    /\ fetchOp = IdleFetch
    /\ testOp = IdleTest
    /\ connOp = "idle"
    /\ modelsStale = FALSE
    /\ last = Step("init")

CacheOnly == <<state, services, backend, loadOp, saveOp, fetchOp, testOp, connOp,
               env, modelsStale>>

CacheWrite(models) ==
    /\ storage' = setModelCache(storage, models, now, FALSE)
    /\ last' = Step("cache-write")
    /\ UNCHANGED <<now, CacheOnly>>

CacheRead(ttlMs) ==
    /\ storage' = getModelCache(storage, now, ttlMs).sto
    /\ last' = Step(IF getModelCache(storage, now, ttlMs).hit THEN "cache-hit"
                    ELSE IF storage.entry.present /\ storage.available
                    THEN "cache-expired"
                    ELSE "cache-miss")
    /\ UNCHANGED <<now, CacheOnly>>

CacheClear ==
    /\ storage' = clearModelCache(storage)
    /\ last' = Step(IF storage.entry.present THEN "cache-cleared"
                    ELSE "cache-cleared-empty")
    /\ UNCHANGED <<now, CacheOnly>>

ClockAdvances ==
    /\ \E d \in {1, FIVE_MINUTES} :
          /\ now + d \in CacheTimes
          /\ now' = now + d
    /\ last' = Step("clock")
    /\ UNCHANGED <<storage, CacheOnly>>

NextCache ==
    \/ \E models \in Catalogues : CacheWrite(models)
    \/ \E ttlMs \in Ttls : CacheRead(ttlMs)
    \/ CacheClear
    \/ ClockAdvances

SpecCache == InitCache /\ [][NextCache]_vars

(* C16: an entry written at T with models M, read with ttl at time t: when  *)
(* t - T <= ttl the read returns M and the entry stays as it is; when       *)
(* t - T > ttl the read returns nothing and removes the entry, and any      *)
(* later read returns nothing either.                                       *)
C16_ReadWithinTtlElseEvict ==
    [][\A ttlMs \in Ttls :
          CacheRead(ttlMs) /\ storage.entry.present
              => IF now - storage.entry.timestamp <= ttlMs
                 THEN /\ getModelCache(storage, now, ttlMs).hit
                      /\ getModelCache(storage, now, ttlMs).models = storage.entry.models
                      /\ storage' = storage
                 ELSE /\ ~getModelCache(storage, now, ttlMs).hit
                      /\ ~storage'.entry.present
                      /\ \A t \in CacheTimes, ttl2 \in Ttls :
                            t >= now => ~getModelCache(storage', t, ttl2).hit]_vars

(* A read exactly one millisecond past the default ttl evicted the entry. *)
C16_Witness ==
    /\ last.op = "cache-expired"
    /\ now = FIVE_MINUTES + 2
    /\ ~storage.entry.present

(* A read at exactly T + ttl still finds the entry. *)
C16_WitnessAtBoundary ==
    /\ last.op = "cache-hit"
    /\ storage.entry.present
    /\ now - storage.entry.timestamp = FIVE_MINUTES

(* C17: clearModelCache is idempotent: on an empty cache it changes         *)
(* nothing, and applied twice it leaves what one application leaves, the    *)
(* cache absent.                                                            *)
C17_ClearIdempotent ==
    /\ clearModelCache(clearModelCache(storage)) = clearModelCache(storage)
    /\ ~clearModelCache(storage).entry.present
    /\ ~storage.entry.present => clearModelCache(storage) = storage
    /\ last.op \in {"cache-cleared", "cache-cleared-empty"} => ~storage.entry.present

(* The cache was cleared while it was already empty. *)
C17_Witness ==
    /\ last.op = "cache-cleared-empty"
    /\ storage.available
    /\ ~storage.entry.present
-----------------------------------------------------------------------------
(* C18: after fetchModels succeeded with M the cache holds M; a fetchModels *)
(* without forceRefresh that finds the entry within its ttl returns it and  *)
(* issues no request; on a miss, or with forceRefresh, one request is       *)
(* issued.                                                                  *)
FetchSucceeds == FetchResponds /\ state'.modelsLoaded

FetchStarts == ~state.modelsLoading /\ state'.modelsLoading

(* handleTabChange and handleTabsKeyDown call ensureModelsLoaded() without  *)
(* forceRefresh; handleRefreshModels and componentDidUpdate pass true.      *)
Unforced == ClickTab \/ PressArrow

CacheHolds(sto, models) == sto.entry.present /\ sto.entry.models = models

ServedFromCache ==
    /\ fetchOp'.phase = "hit"
    /\ fetchOp'.models = storage.entry.models

RequestOrRejection == fetchOp'.phase = (IF services.api THEN "net" ELSE "noapi")

-----------------------------------------------------------------------------
(* C19: when the response normalizes to an empty list, fetchModels fails    *)
(* with 'No models returned from OpenRouter' and writes nothing to the      *)
(* cache, and the widget shows that message in modelTabError with           *)
(* modelsLoaded false and the loading flag off.                             *)
EmptyCatalogueArrives ==
    /\ NoPendingJob
    /\ fetchOp.phase = "net"
    /\ \E r \in env.responses :
          NormalizedModels(r) = <<>> /\ Apply(ResponseArrived(World, r))

C19_EmptyCatalogueFails ==
    [][EmptyCatalogueArrives
          => /\ storage' = storage
             /\ state'.modelTabError = "No models returned from OpenRouter"
             /\ ~state'.modelsLoaded
             /\ ~state'.modelsLoading
             /\ fetchOp'.phase = "idle"]_vars

(* An empty catalogue arrived while the cache held an earlier list, which   *)
(* is still there.                                                          *)
C19_Witness ==
    /\ state.modelTabError = "No models returned from OpenRouter"
    /\ ~state.modelsLoaded
    /\ storage.entry.present
    /\ storage.entry.models # <<>>
-----------------------------------------------------------------------------
(* C20: every model record fetchModels returns has a non-empty identifier,  *)
(* and so has every record in the cache and in availableModels; the list    *)
(* returned for a response holds one record for each raw entry that has a   *)
(* non-empty id, model or name, in order, identified by one of those, and   *)
(* none for the entries that have neither.                                  *)
AllIdentified(models) == \A i \in 1..Len(models) : models[i].id # ""

Identifiable(raw) == raw.id # "" \/ raw.model # "" \/ raw.name # ""

KeptFrom(items, models) ==
    /\ Len(models) = Len(SelectSeq(items, Identifiable))
    /\ \A i \in 1..Len(models) :
          models[i].id \in {SelectSeq(items, Identifiable)[i].id,
                            SelectSeq(items, Identifiable)[i].model,
                            SelectSeq(items, Identifiable)[i].name} \ {""}

CatalogueArrives(r) ==
    /\ NoPendingJob
    /\ fetchOp.phase = "net"
    /\ Apply(ResponseArrived(World, r))
    /\ state'.modelsLoaded

C20_ModelsHaveIdentifiers ==
    [][/\ AllIdentified(state'.availableModels)
       /\ AllIdentified(storage'.entry.models)
       /\ AllIdentified(fetchOp'.models)
       /\ \A r \in env.responses :
             CatalogueArrives(r)
                => KeptFrom(RawModelsOf(r), state'.availableModels)]_vars

(* A catalogue with an entry that has no id, model or name arrived: the     *)
(* widget lists the other entry only.                                       *)
C20_Witness ==
    /\ state.modelsLoaded
    /\ state.availableModels = LoadedCatalogue
    /\ Len(state.availableModels) = 1
    /\ state.availableModels[1].id = "m-beta"
-----------------------------------------------------------------------------
(* C21: identifiers are unique within every fetched list: no list that      *)
(* fetchModels returned, that the cache holds or that availableModels       *)
(* holds has two records with the same id, whatever the payload was.        *)
UniqueIds(models) ==
    \A i, j \in 1..Len(models) : models[i].id = models[j].id => i = j

C21_IdentifiersUnique ==
    /\ UniqueIds(state.availableModels)
    /\ UniqueIds(storage.entry.models)
    /\ UniqueIds(fetchOp.models)
-----------------------------------------------------------------------------
(* OpenRouterService on its own: testModelAvailability called with any of   *)
(* a few model ids and with or without a list, over a cache of any content  *)
(* and age. Without a list the call awaits fetchModels(); the request, if   *)
(* one is made, is answered within the call.                                *)
ServiceRuns ==
    [candidates |-> {}, controls |-> {}, updates |-> {},
     responses |-> {[shape |-> "array", items |-> <<RawAlpha, RawBeta>>],
                    [shape |-> "models", items |-> <<>>],
                    ClashingResponse},
     failures |-> FALSE, tests |-> 0, saves |-> MaxSaves]

TestedIds == {"m-alpha", "m-beta", "Beta", "ghost-model"}

SuppliedLists == {<<>>} \cup {NormalizedModels(r) : r \in ServiceRuns.responses}

(* fetchModels() as testModelAvailability awaits it: the cached list, or    *)
(* the answer r normalized and cached, or an exception.                     *)
fetchModelsWithin(sto, r) ==
    LET c == getModelCache(sto, now, FIVE_MINUTES)
    IN  IF c.hit THEN [sto |-> c.sto, thrown |-> FALSE, models |-> c.models]
        ELSE IF ~services.api \/ NormalizedModels(r) = <<>>
        THEN [sto |-> c.sto, thrown |-> TRUE, models |-> <<>>]
        ELSE [sto |-> setModelCache(c.sto, NormalizedModels(r), now, FALSE),
              thrown |-> FALSE, models |-> NormalizedModels(r)]

(* The list testModelAvailability searches: models && models.length ?       *)
(* models : await this.fetchModels().                                       *)
WorkingSet(sto, models, r) ==
    IF models # <<>> THEN [sto |-> sto, thrown |-> FALSE, models |-> models]
    ELSE fetchModelsWithin(sto, r)

ServiceTest(modelId, models, r) ==
    /\ LET ws == WorkingSet(storage, models, r)
           t == testModelAvailability(ws.sto, modelId, ws.models)
       IN  IF ws.thrown
           THEN /\ storage' = ws.sto
                /\ testOp' = [IdleTest EXCEPT !.phase = "thrown"]
           ELSE /\ storage' = t.sto
                /\ testOp' = [phase |-> "returned", result |-> t.result,
                              selected |-> [id |-> modelId, name |-> ""]]
    /\ last' = [Step("service-test") EXCEPT !.hadModels = storage.entry.present]
    /\ UNCHANGED <<state, services, backend, now, loadOp, saveOp, fetchOp, connOp,
                   env, modelsStale>>

InitService ==
    /\ env = ServiceRuns
    /\ state = InitialState
    /\ services \in {[api |-> a, settings |-> FALSE, subscribe |-> FALSE] :
                        a \in BOOLEAN}
    /\ storage \in {[available |-> a, entry |-> NoEntry] : a \in BOOLEAN}
    /\ backend = <<>>
    /\ now = 1
    /\ loadOp = "register"
    /\ saveOp = <<>>
    /\ fetchOp = IdleFetch
    /\ testOp = IdleTest
    /\ connOp = "idle"
    /\ modelsStale = FALSE
    /\ last = Step("init")

NextService ==
    \/ \E modelId \in TestedIds, models \in SuppliedLists, r \in env.responses :
          ServiceTest(modelId, models, r)
    \/ ClockAdvances

SpecService == InitService /\ [][NextService]_vars

Matches(models, modelId) ==
    \E i \in 1..Len(models) : models[i].id = modelId \/ models[i].name = modelId

(* C22: testModelAvailability returns status 'available' exactly when some  *)
(* model of the working set has id or name equal to modelId, and            *)
(* 'unavailable' otherwise; what it returns never has status 'unknown'.     *)
C22_AvailableIffMatch ==
    [][\A modelId \in TestedIds, models \in SuppliedLists, r \in env.responses :
          ServiceTest(modelId, models, r) /\ ~WorkingSet(storage, models, r).thrown
              => /\ testOp'.phase = "returned"
                 /\ testOp'.result.status =
                       (IF Matches(WorkingSet(storage, models, r).models, modelId)
                        THEN "available" ELSE "unavailable")]_vars

(* A model that the fetched list does not contain was reported unavailable. *)
C22_Witness ==
    /\ testOp.phase = "returned"
    /\ testOp.result.status = "unavailable"
    /\ testOp.selected.id = "ghost-model"
(* C23: testModelAvailability clears the model cache exactly when no model  *)
(* matches: after a miss the cache is absent, whatever it held and however  *)
(* old it was; after a match on a list supplied by the caller the cache is  *)
(* as it was.                                                               *)
C23_CacheClearedOnMissOnly ==
    [][\A modelId \in TestedIds, models \in SuppliedLists, r \in env.responses :
          ServiceTest(modelId, models, r) /\ ~WorkingSet(storage, models, r).thrown
              => /\ ~Matches(WorkingSet(storage, models, r).models, modelId)
                       => ~storage'.entry.present
                 /\ Matches(models, modelId) /\ models # <<>>
                       => storage' = storage]_vars

(* A miss on a supplied list has emptied a cache that held a list. *)
C23_Witness ==
    /\ testOp.phase = "returned"
    /\ testOp.result.status = "unavailable"
    /\ last.op = "service-test"
    /\ last.hadModels
    /\ ~storage.entry.present
    /\ now > 1

(* C24: testModelAvailability matches by identifier first and by display    *)
(* name only as a fallback: whenever the working set has a model whose id   *)
(* equals modelId, the result's modelId is modelId, also when an earlier    *)
(* model of the list has a display name equal to modelId.                   *)
HasId(models, modelId) == \E i \in 1..Len(models) : models[i].id = modelId

C24_IdentifierBeforeName ==
    [][\A modelId \in TestedIds, models \in SuppliedLists, r \in env.responses :
          (/\ ServiceTest(modelId, models, r)
           /\ ~WorkingSet(storage, models, r).thrown
           /\ HasId(WorkingSet(storage, models, r).models, modelId))
              => testOp'.result.modelId = modelId]_vars
(* The mount sequence on every combination of host capabilities, with the  *)
(* settings subscription delivering while the load is pending and the user *)
(* acting on the form it rendered.                                         *)
MountRuns ==
    {[candidates |-> {KeyNoPrefix},
      controls |-> {"input", "save"},
      updates |-> {RawStringValue(KeyA)},
      responses |-> {},
      failures |-> f,
      tests |-> 0, saves |-> MaxSaves] : f \in BOOLEAN}

InitMount ==
    /\ state = InitialState
    /\ env \in MountRuns
    /\ services \in AllServices
    /\ storage = [available |-> TRUE, entry |-> NoEntry]
    /\ backend \in {<<>>, <<Instance(1, "USER", KeyA)>>}
    /\ now = TickMs
    /\ loadOp = "register"
    /\ saveOp = <<>>
    /\ fetchOp = IdleFetch
    /\ testOp = IdleTest
    /\ connOp = "idle"
    /\ modelsStale = FALSE
    /\ last = Step("init")

NextMount ==
    \/ MountContinues
    \/ LoadFromAPIFinds
    \/ LoadFromAPIFindsNothing
    \/ GetSettingFinds
    \/ GetSettingFindsNothing
    \/ SettingsUpdated
    \/ TypeKey
    \/ ClickSave
    \/ \E i \in 1..Len(saveOp) : LookupSettles(i)
    \/ \E i \in 1..Len(saveOp) : WriteSucceeds(i)
    \/ \E i \in 1..Len(saveOp) : WriteFails(i)

(* Every call componentDidMount awaits eventually resolves or rejects. *)
LoadSettles ==
    /\ WF_vars(MountContinues)
    /\ WF_vars(LoadFromAPIFinds \/ LoadFromAPIFindsNothing)
    /\ WF_vars(GetSettingFinds \/ GetSettingFindsNothing)

SpecMount == InitMount /\ [][NextMount]_vars /\ LoadSettles

LoadEndsWithoutInstance ==
    loadOp # "done" /\ loadOp' = "done" /\ last'.op # "load-found"

(* With every awaited call settling the widget eventually shows the form. *)
MountEventuallyLoaded == <>(~state.isLoading)

(* A load that ends without an instance leaves an empty credential. *)
LoadWithoutInstanceEmptiesCredential ==
    [][LoadEndsWithoutInstance
          => /\ ~state'.isLoading
             /\ state'.apiKey = EmptyStr
             /\ state'.savedApiKey = EmptyStr]_vars

(* C25: after mount, on every combination of host capabilities and with    *)
(* every awaited call settling, the widget eventually has isLoading false; *)
(* when the load ends without an instance it does so with apiKey and       *)
(* savedApiKey empty and error null.                                       *)
C25_MountEndsLoading ==
    /\ MountEventuallyLoaded
    /\ LoadWithoutInstanceEmptiesCredential
    /\ [][LoadEndsWithoutInstance => state'.error = "null"]_vars
(* saveApiKey called directly, as its own caller would, whatever the Save  *)
(* button shows; env.saves bounds the saves outstanding at once.           *)
SaveRuns ==
    [candidates |-> {KeyA},
     controls |-> {"input", "save"},
     updates |-> {},
     responses |-> {},
     failures |-> TRUE,
     tests |-> 0, saves |-> MaxSaves + 1]

InitSave ==
    /\ state = InitialState
    /\ env = SaveRuns
    /\ services \in {sv \in AllServices : ~sv.subscribe}
    /\ storage = [available |-> TRUE, entry |-> NoEntry]
    /\ backend \in {<<>>, <<Instance(1, "user", KeyB)>>}
    /\ now = TickMs
    /\ loadOp = "register"
    /\ saveOp = <<>>
    /\ fetchOp = IdleFetch
    /\ testOp = IdleTest
    /\ connOp = "idle"
    /\ modelsStale = FALSE
    /\ last = Step("init")

InvokeSave ==
    /\ NoPendingJob
    /\ loadOp = "done"
    /\ saveApiKey

NextSave ==
    \/ MountContinues
    \/ LoadFromAPIFinds
    \/ LoadFromAPIFindsNothing
    \/ GetSettingFinds
    \/ GetSettingFindsNothing
    \/ TypeKey
    \/ InvokeSave
    \/ \E i \in 1..Len(saveOp) : LookupSettles(i)
    \/ \E i \in 1..Len(saveOp) : WriteSucceeds(i)
    \/ \E i \in 1..Len(saveOp) : WriteFails(i)

SpecSave == InitSave /\ [][NextSave]_vars

(* C26: saveApiKey invoked while a save is outstanding (isSaving true) is   *)
(* a no-op: it issues no lookup and no write and leaves the state as it is. *)
C26_SaveWhileSavingIsNoOp ==
    [][InvokeSave /\ state.isSaving => UNCHANGED <<state, saveOp>>]_vars
(* C27: at most one model-list request of ensureModelsLoaded and at most    *)
(* one model test of handleTestModel is outstanding: ensureModelsLoaded     *)
(* invoked while modelsLoading, and handleTestModel invoked while           *)
(* isModelTesting, issue no request and change no state.                    *)
C27_OneFetchOneTest ==
    /\ [](fetchOp.issued <= 1)
    /\ [](fetchOp.phase = "net" => state.modelsLoading)
    /\ [](testOp.phase = "running" => state.isModelTesting)
    /\ [][InvokeRefresh /\ state.modelsLoading
             => UNCHANGED <<state, fetchOp, storage, modelsStale>>]_vars
    /\ [][InvokeTestModel /\ state.isModelTesting
             => UNCHANGED <<state, storage, testOp>>]_vars

(* A refresh can be invoked while the request of an earlier one is out. *)
C27_Witness ==
    /\ fetchOp.phase = "net"
    /\ state.modelsLoading
    /\ ENABLED InvokeRefresh

(* A model test is running and handleTestModel can be invoked again. *)
C27_WitnessTest ==
    /\ testOp.phase = "running"
    /\ state.isModelTesting
    /\ ENABLED InvokeTestModel
(* Removing the credential: the save of the empty value. *)
RemovalWritten(i) == WriteSucceeds(i) /\ saveOp[i].apiKey = EmptyStr

(* The removal is not validated and its request carries the disabled empty *)
(* value.                                                                  *)
RemovalSkipsValidation ==
    [][ClickSave /\ state.apiKey = EmptyStr
          => /\ last'.op # "save-rejected"
             /\ \A i \in DOMAIN saveOp' :
                   saveOp'[i].apiKey = EmptyStr
                       => saveOp'[i].value = [apiKey |-> EmptyStr, enabled |-> FALSE]]_vars

(* The removal overwrites the instance that exists and deletes none. *)
RemovalKeepsInstance ==
    [][\A i \in DOMAIN saveOp :
          RemovalWritten(i) /\ backend # <<>>
              => /\ Len(backend') = Len(backend)
                 /\ \E n \in DOMAIN backend :
                       /\ backend'[n].id = backend[n].id
                       /\ backend'[n].value = saveOp[i].value]_vars

(* After the removal the widget has no saved key and no model-testing      *)
(* state.                                                                  *)
RemovalResetsWidget ==
    [][\A i \in DOMAIN saveOp :
          RemovalWritten(i)
              => /\ state'.savedApiKey = EmptyStr
                 /\ state'.activeTab = "api-key"
                 /\ state'.availableModels = <<>>
                 /\ state'.selectedModelId = "null"
                 /\ state'.modelTestResults = <<>>
                 /\ state'.modelTabError = "null"]_vars

(* C28: removing the credential is a save of the empty value: it skips     *)
(* validation, writes the value with apiKey '' and enabled false to the     *)
(* same instance, which is kept, and on success the widget has savedApiKey  *)
(* empty, activeTab 'api-key' and no models, selection, history or tab      *)
(* error.                                                                   *)
C28_RemovalIsEmptySave ==
    /\ RemovalSkipsValidation
    /\ RemovalKeepsInstance
    /\ RemovalResetsWidget
(* The four operations with an in-flight flag, each with its success and   *)
(* its failure paths, on a host with the api and on one with the settings  *)
(* service only: saves together with model fetches and model tests in one  *)
(* family of runs, connection tests in the other.                          *)
FlagRuns ==
    {[candidates |-> {KeyB},
      controls |-> c,
      updates |-> {},
      responses |-> {[shape |-> "array", items |-> <<RawAlpha>>]},
      failures |-> TRUE,
      tests |-> 1, saves |-> 1] :
        c \in {{"input", "save", "tabs", "refresh", "test-model"},
               {"test-connection"}}}

InitFlags ==
    /\ state = InitialState
    /\ env \in FlagRuns
    /\ services \in {sv \in AllServices : sv.settings /\ ~sv.subscribe}
    /\ storage = [available |-> FALSE, entry |-> NoEntry]
    /\ backend = <<Instance(1, "user", KeyA)>>
    /\ now = TickMs
    /\ loadOp = "register"
    /\ saveOp = <<>>
    /\ fetchOp = IdleFetch
    /\ testOp = IdleTest
    /\ connOp = "idle"
    /\ modelsStale = FALSE
    /\ last = Step("init")

NextFlags ==
    \/ MountContinues
    \/ LoadFromAPIFinds
    \/ LoadFromAPIFindsNothing
    \/ GetSettingFinds
    \/ GetSettingFindsNothing
    \/ TypeKey
    \/ ClickSave
    \/ \E i \in 1..Len(saveOp) : LookupSettles(i)
    \/ \E i \in 1..Len(saveOp) : WriteSucceeds(i)
    \/ \E i \in 1..Len(saveOp) : WriteFails(i)
    \/ ClickTestConnection
    \/ ConnectionTestSucceeds
    \/ ConnectionTestFails
    \/ ClickTab
    \/ ClickRefresh
    \/ FetchRejectedWithoutApi
    \/ FetchFails
    \/ FetchResponds
    \/ ClickTestModel
    \/ ModelTestSettles
    \/ ModelTestRejects

(* Every request eventually resolves or rejects and a continuation that is *)
(* ready runs. For the write of a save, the connection test and the model   *)
(* request this is stated on the request itself: it is not outstanding      *)
(* forever. A request leaves that condition only by its own settlement, so  *)
(* this is fairness of the settling action, strong fairness for the write,  *)
(* which the continuations of other handlers can hold back again and again. *)
WriteOutstanding ==
    \E i \in DOMAIN saveOp : saveOp[i].phase \in {"post", "setSetting"}

Settling ==
    /\ WF_vars(MountContinues)
    /\ WF_vars(LoadFromAPIFinds \/ LoadFromAPIFindsNothing)
    /\ WF_vars(GetSettingFinds \/ GetSettingFindsNothing)
    /\ WF_vars(\E i \in 1..Len(saveOp) : LookupSettles(i))
    /\ WF_vars(FetchRejectedWithoutApi)
    /\ WF_vars(ModelTestSettles \/ ModelTestRejects)
    /\ []<>(~WriteOutstanding)
    /\ []<>(connOp # "running")
    /\ []<>(fetchOp.phase # "net")

SpecFlags == InitFlags /\ [][NextFlags]_vars /\ Settling

(* C29: no in-flight flag stays stuck: with every request resolving or     *)
(* rejecting, isSaving, modelsLoading, isModelTesting and isTesting are     *)
(* each eventually false again after they were set, on success and on      *)
(* every failure path.                                                     *)
C29_FlagsComeDown ==
    /\ state.isSaving ~> ~state.isSaving
    /\ state.modelsLoading ~> ~state.modelsLoading
    /\ state.isModelTesting ~> ~state.isModelTesting
    /\ state.isTesting ~> ~state.isTesting

(* A save whose write was rejected has given the flag back. *)
C29_Witness == last.op = "save-failed" /\ ~state.isSaving /\ state.error # "null"
(* C30: hasUnsavedChanges is derived from the two values: in every         *)
(* reachable state it is true exactly when apiKey differs from             *)
(* savedApiKey, whatever the interleaving of edits, clears, completed      *)
(* saves, loads and settings updates.                                      *)
C30_UnsavedIffDifferent ==
    state.hasUnsavedChanges <=> (state.apiKey # state.savedApiKey)

----------------------------------------------------------------------------
(* Models loaded for the credential that is saved now: modelsLoaded is     *)
(* true and the list was not requested under an earlier credential.        *)
LoadedForCurrentKey == state.modelsLoaded /\ ~modelsStale

EntersModelTab ==
    /\ handleTabChange("model-testing")
    /\ state.activeTab = "api-key"
    /\ state.savedApiKey # EmptyStr

(* C31: entering the model-testing tab with a saved credential calls       *)
(* fetchModels whenever models are not loaded for the current credential   *)
(* (a fetch is outstanding after the step), and leaves the fetch and the   *)
(* cache alone when modelsLoaded is true for the current credential. The   *)
(* code looks at modelsLoaded only, which a credential change on the       *)
(* API-key tab leaves true, so the first half fails.                       *)
C31_TabEntryFetches ==
    /\ [][(EntersModelTab /\ ~LoadedForCurrentKey)
          => fetchOp'.phase # "idle"]_vars
    /\ [][(EntersModelTab /\ LoadedForCurrentKey)
          => UNCHANGED <<fetchOp, storage>>]_vars

C31_LoadedTabEntryFetchesNothing ==
    [][(EntersModelTab /\ LoadedForCurrentKey)
          => UNCHANGED <<fetchOp, storage>>]_vars

----------------------------------------------------------------------------
(* The slots of the credential tab. *)
CredentialSlots(st) ==
    <<st.error, st.success, st.apiKey, st.savedApiKey, st.hasUnsavedChanges>>

(* A step of ensureModelsLoaded or handleTestModel: the start by a button  *)
(* or one of the continuations after the awaited call.                     *)
ModelJobStep ==
    \/ ClickRefresh
    \/ FetchRejectedWithoutApi
    \/ FetchFails
    \/ FetchResponds
    \/ ClickTestModel
    \/ ModelTestSettles
    \/ ModelTestRejects

ModelJobFailure ==
    \/ FetchRejectedWithoutApi
    \/ FetchFails
    \/ ModelTestRejects

(* C32: a step of ensureModelsLoaded or handleTestModel, successful or     *)
(* not, leaves error, success, apiKey, savedApiKey and hasUnsavedChanges   *)
(* as they were; a failure is written to modelTabError and leaves          *)
(* testError and testResult alone as well.                                 *)
C32_ModelJobsAreTabScoped ==
    /\ [][ModelJobStep => CredentialSlots(state') = CredentialSlots(state)]_vars
    /\ [][ModelJobFailure
            => /\ state'.modelTabError # "null"
               /\ state'.testError = state.testError
               /\ state'.testResult = state.testResult]_vars

(* A fetch has failed while the credential tab holds an unsaved edit. *)
C32_Witness ==
    /\ state.modelTabError = "Failed to load available models"
    /\ ~state.modelsLoading
    /\ state.hasUnsavedChanges
    /\ state.apiKey # state.savedApiKey
    /\ state.error = "null"

----------------------------------------------------------------------------
(* The fetch of a manual refresh (forceRefresh) ends in failure: the       *)
(* request fails, the payload holds no usable model, or there is no api.   *)
RefreshFetchFails ==
    /\ fetchOp.forced
    /\ FetchFails \/ FetchResponds \/ FetchRejectedWithoutApi
    /\ ~state'.modelsLoaded
    /\ state'.modelTabError # "null"

(* C33: after a manual refresh whose fetch fails the model cache holds no  *)
(* entry, so that the next fetchModels without forceRefresh goes to the    *)
(* network. fetchModels with forceRefresh only skips the cache read; the   *)
(* entry written before the refresh is still there, so this fails.         *)
C33_FailedRefreshLeavesNoEntry ==
    [][RefreshFetchFails => ~storage'.entry.present]_vars

----------------------------------------------------------------------------
(* handleTestModel invoked on the mounted widget whatever the Test         *)
(* button's disabled attribute says: while a model fetch is outstanding,   *)
(* and again before a test it started has resumed.                         *)
CallTestModel ==
    /\ fetchOp.phase \notin {"hit", "noapi"}
    /\ "test-model" \in env.controls
    /\ Rendered
    /\ Len(state.modelTestResults) < env.tests
    /\ handleTestModel

NextTester ==
    \/ NextFlags
    \/ CallTestModel

SpecTester == InitFlags /\ [][NextTester]_vars

(* C34: handleTestModel invoked while modelsLoading or isModelTesting is   *)
(* true starts no test: no call of testModelAvailability, no result, the   *)
(* state as it was. The handler checks isModelTesting only; modelsLoading  *)
(* is checked by the button's disabled attribute, so this fails for a      *)
(* direct invocation during a refresh.                                     *)
C34_NoTestWhileBusy ==
    [][(CallTestModel /\ (state.modelsLoading \/ state.isModelTesting))
          => UNCHANGED <<state, storage, testOp>>]_vars

(* The same through the rendered Test button. *)
C34_ButtonStartsNoTestWhileBusy ==
    [][(ClickTestModel /\ (state.modelsLoading \/ state.isModelTesting))
          => UNCHANGED <<state, storage, testOp>>]_vars

----------------------------------------------------------------------------
(* handleTestModel gets past its guards and calls testModelAvailability.   *)
WidgetTestStarts == ClickTestModel /\ testOp'.phase = "running"

(* C35: a test started by the widget's handleTestModel is answered from    *)
(* availableModels: the result of testModelAvailability has status         *)
(* 'available', the call issues no fetch and leaves the model cache as it  *)
(* is, and the result that is recorded is that one. No recorded result     *)
(* has status 'unavailable'.                                               *)
C35_WidgetTestIsAvailable ==
    /\ [][WidgetTestStarts
            => /\ testOp'.result.status = "available"
               /\ UNCHANGED <<fetchOp, storage>>]_vars
    /\ [][ModelTestSettles
            => /\ Head(state'.modelTestResults) = testOp.result
               /\ Head(state'.modelTestResults).status = "available"
               /\ UNCHANGED <<fetchOp, storage>>]_vars
    /\ [](\A i \in 1..Len(state.modelTestResults) :
             state.modelTestResults[i].status # "unavailable")

(* A result is recorded and the cache entry written before the test is     *)
(* still there.                                                            *)
C35_Witness ==
    /\ state.modelTestResults # <<>>
    /\ Head(state.modelTestResults).status = "available"
    /\ ~state.isModelTesting
    /\ storage.entry.present
    /\ fetchOp = IdleFetch

----------------------------------------------------------------------------
(* C36: every non-empty apiKey value that saveApiKey sends to the backend  *)
(* passes validateApiKey itself. The pending value is validated as typed   *)
(* and sent trimmed, so a value that reaches the minimum length only with  *)
(* its trailing whitespace is sent too short, and this fails.              *)
C36_SentKeyIsValid ==
    \A i \in 1..Len(saveOp) :
        saveOp[i].value.apiKey # EmptyStr
            => validateApiKey(saveOp[i].value.apiKey).isValid

----------------------------------------------------------------------------
SelectionListed ==
    state.selectedModelId = "null" \/ state.selectedModelId \in ModelIds(state)

(* ensureModelsLoaded resumes with a list: from the network or the cache. *)
ListArrives ==
    /\ FetchResponds \/ CachedModelsReturned
    /\ state'.modelsLoaded

(* C37: selectedModelId is null or the id of a record of availableModels   *)
(* in every reachable state; a successful fetch keeps the selection when   *)
(* the new list contains it and selects the first model of the new list    *)
(* otherwise.                                                              *)
C37_SelectionInList ==
    /\ []SelectionListed
    /\ [][ListArrives
            => state'.selectedModelId =
                  IF state.selectedModelId \in ModelIds(state')
                  THEN state.selectedModelId
                  ELSE IF state'.availableModels = <<>> THEN "null"
                  ELSE state'.availableModels[1].id]_vars

(* An outstanding fetch can answer with a list that differs from the one   *)
(* shown and does not hold the selected model: the selection moves to the  *)
(* first model of the new list.                                            *)
C37_Witness ==
    /\ fetchOp.phase = "net"
    /\ state.selectedModelId # "null"
    /\ ENABLED (/\ ListArrives
                /\ state.selectedModelId \notin ModelIds(state')
                /\ state'.selectedModelId = state'.availableModels[1].id)

(* The same with a new list that still holds the selected model, which is  *)
(* not its first: the selection is kept.                                   *)
C37_WitnessKept ==
    /\ fetchOp.phase = "net"
    /\ state.selectedModelId # "null"
    /\ ENABLED (/\ ListArrives
                /\ state'.availableModels # state.availableModels
                /\ state'.selectedModelId = state.selectedModelId
                /\ state'.selectedModelId # state'.availableModels[1].id)

----------------------------------------------------------------------------
(* C38: in every quiescent state (no save, load, model fetch, model test   *)
(* or connection test outstanding) in which no credential is saved, the    *)
(* model-testing state is empty: availableModels is empty, modelsLoaded is *)
(* false, selectedModelId is null and activeTab is 'api-key'. An answer    *)
(* that arrives after the credential was removed refills the list, so      *)
(* this fails.                                                             *)
C38_NoKeyNoModels ==
    (Quiescent /\ state.savedApiKey = EmptyStr)
        => /\ state.availableModels = <<>>
           /\ ~state.modelsLoaded
           /\ state.selectedModelId = "null"
           /\ state.activeTab = "api-key"

----------------------------------------------------------------------------
(* handleTestConnection on hosts with and without the api capability,     *)
(* with edits and saves in between, invoked through the button and         *)
(* directly.                                                               *)
InitConnection ==
    /\ state = InitialState
    /\ env = ConnectionRuns
    /\ services \in {sv \in AllServices : sv.settings /\ ~sv.subscribe}
    /\ storage = [available |-> TRUE, entry |-> NoEntry]
    /\ backend \in {<<>>, <<Instance(1, "user", KeyA)>>}
    /\ now = TickMs
    /\ loadOp = "register"
    /\ saveOp = <<>>
    /\ fetchOp = IdleFetch
    /\ testOp = IdleTest
    /\ connOp = "idle"
    /\ modelsStale = FALSE
    /\ last = Step("init")

NextConnection ==
    \/ MountContinues
    \/ LoadFromAPIFinds
    \/ LoadFromAPIFindsNothing
    \/ GetSettingFinds
    \/ GetSettingFindsNothing
    \/ TypeKey
    \/ ClickSave
    \/ \E i \in 1..Len(saveOp) : LookupSettles(i)
    \/ \E i \in 1..Len(saveOp) : WriteSucceeds(i)
    \/ \E i \in 1..Len(saveOp) : WriteFails(i)
    \/ SuccessNoticeExpires
    \/ ClickTestConnection
    \/ InvokeTestConnection
    \/ ConnectionTestSucceeds
    \/ ConnectionTestFails
    \/ ConnectionNoticeExpires

SpecConnection == InitConnection /\ [][NextConnection]_vars

(* The state in which a connection test may go out: the api capability is  *)
(* there, a credential is saved, the field holds no unsaved edit, and no   *)
(* save and no connection test is outstanding.                             *)
MayTestConnection ==
    /\ services.api
    /\ state.savedApiKey # EmptyStr
    /\ ~state.hasUnsavedChanges
    /\ saveOp = <<>>
    /\ connOp = "idle"

(* C39: handleTestConnection issues its request exactly in a state where   *)
(* the api capability is present, savedApiKey is non-empty,                *)
(* hasUnsavedChanges is false and no save and no connection test is in     *)
(* flight. In every other state it issues none; while a save or a test is  *)
(* in flight it changes nothing, and otherwise it sets testError and       *)
(* clears testResult.                                                      *)
C39_ConnectionTestGuards ==
    /\ [][(InvokeTestConnection /\ MayTestConnection)
            => /\ connOp' = "running"
               /\ state'.isTesting]_vars
    /\ [][(InvokeTestConnection /\ ~MayTestConnection)
            => /\ connOp' = connOp
               /\ IF saveOp # <<>> \/ connOp # "idle"
                  THEN state' = state
                  ELSE /\ state'.testError # "null"
                       /\ state'.testResult = "null"
                       /\ ~state'.isTesting]_vars

(* A test was refused for an unsaved edit while nothing is in flight. *)
C39_Witness ==
    /\ state.testError = "save_changes_first"
    /\ state.testResult = "null"
    /\ state.hasUnsavedChanges
    /\ state.savedApiKey # EmptyStr
    /\ connOp = "idle"
    /\ saveOp = <<>>

(* A test was refused on a host without the api capability. *)
C39_WitnessNoApi ==
    /\ state.testError = "api_unavailable"
    /\ state.savedApiKey # EmptyStr
    /\ ~services.api
    /\ connOp = "idle"
====
